---- MODULE Spec2Model ----
(***************************************************************************)
(* Model of the Wallace bubble planner (src/wallace_bubble_gui.py, class   *)
(* MainWin) and of the batch reduction engine (src/gen_wallace.py).        *)
(*                                                                         *)
(* Conventions                                                             *)
(*  - A label is a record [bus, n, idx]: pp{n}[{idx}] is bus "pp",         *)
(*    stg{n}_S[{idx}] is bus "S", stg{n}_C[{idx}] is bus "C", the constant *)
(*    1'b0 is ZERO.  The bus and name templates are the defaults of the    *)
(*    text fields ({stage}_S, {stage}_C).                                  *)
(*  - A stage name stg{n} is the number n >= 1; 0 stands for "no stage".   *)
(*  - Vertical positions are kept in units of ROW_GAP / 2 (11 px), so the  *)
(*    row lines are the even values 0, -2, ... and the mid lines the odd   *)
(*    ones; y grows downwards and is never positive.                       *)
(*  - columns is a sequence, column c of the program is columns[c + 1].    *)
(*  - An optional object (self.curr) is a sequence of length 0 or 1.       *)
(***************************************************************************)
EXTENDS Integers, Sequences, FiniteSets, TLC

\* ---------------------------------------------------------------- bounds
N == 2
MaxStages == 2
MaxAdders == 2
MaxMoves == 1
MaxPads == 1
MaxFiles == 1
MaxPlanAdders == 2
MaxWidth == 3
MaxSteps == 9

\* ------------------------------------------------------------- constants
ROW_GAP == 2
NoY == 1

\* load_plan, obj.get("N", 32): the width of a plan file that names none,
\* in the model a width whose board it can hold
DefaultN == 3

\* columns, stages, curr, stage_by_name: the fields of MainWin; hung: a
\* handler has entered a loop it never leaves; lastOp: the last handler that
\* was not a rejected request; drags: the number of drag gestures so far;
\* steps: the number of handler calls so far, the rejected ones aside
VARIABLES columns, stages, curr, stage_by_name, history, files, hung, lastOp, drags, steps,
          job, run

\* the planner window
planner == <<columns, stages, curr, stage_by_name, history, files, hung, lastOp, drags, steps>>

\* one request to the generators
batch == <<job, run>>

vars == <<planner, batch>>

\* ---------------------------------------------------------------- helpers
Min(a, b) == IF a <= b THEN a ELSE b
Max(a, b) == IF a >= b THEN a ELSE b
Abs(a) == IF a < 0 THEN -a ELSE a

Range(s) == {s[i] : i \in 1..Len(s)}

ZERO == [bus |-> "1'b0", n |-> 0, idx |-> 0]
PPLabel(i, j) == [bus |-> "pp", n |-> i, idx |-> j]
\* a bus label that leaves the sequence number out
BusLabel_unnumbered(bus, stage, seq) == [bus |-> bus, n |-> stage, idx |-> 0]

\* "{sum_bus}[{s_seq}]", "{car_bus}[{c_seq}]"
BusLabel(bus, stage, seq) == [bus |-> bus, n |-> stage, idx |-> seq]

EmptyMap == [l \in {} |-> 0]
MapPut(m, k, v) == (k :> v) @@ m

\* list.remove(x): the first element equal to x is deleted
RECURSIVE RemoveFirst(_, _)
RemoveFirst(s, x) ==
  IF s = <<>> THEN <<>>
  ELSE IF Head(s) = x THEN Tail(s)
  ELSE <<Head(s)>> \o RemoveFirst(Tail(s), x)

\* first bubble of a column carrying a label, as a sequence of length 0 or 1
RECURSIVE FindLabel(_, _)
FindLabel(pile, lab) ==
  IF pile = <<>> THEN <<>>
  ELSE IF Head(pile).label = lab THEN <<Head(pile)>>
  ELSE FindLabel(Tail(pile), lab)

\* list.sort(key = y, reverse = True): stable, largest y first
RECURSIVE InsertByY(_, _)
InsertByY(sorted, b) ==
  IF sorted = <<>> THEN <<b>>
  ELSE IF Head(sorted).y >= b.y THEN <<Head(sorted)>> \o InsertByY(Tail(sorted), b)
  ELSE <<b>> \o sorted

RECURSIVE SortByY(_)
SortByY(blist) ==
  IF blist = <<>> THEN <<>>
  ELSE InsertByY(SortByY(SubSeq(blist, 1, Len(blist) - 1)), blist[Len(blist)])

\* ------------------------------------------------------------ data model
BitBubble(label, kind, col, row) ==
  [label |-> label, kind |-> kind, col |-> col, row |-> row,
   y |-> 0, manual_y |-> NoY, stage_name |-> 0]

StageLog(name) ==
  [name |-> name, adders |-> <<>>, s_seq |-> 0, c_seq |-> 0,
   positions |-> EmptyMap, undo_actions |-> <<>>, redo_actions |-> <<>>]

PlacedAdder(type, col, inputs) == [type |-> type, col |-> col, inputs |-> inputs]

BubbleSnapshot(b) ==
  [label |-> b.label, kind |-> b.kind, col |-> b.col, row |-> b.row,
   y |-> b.y, stage_name |-> b.stage_name]

AdderAction(stage_name, kind, col, removed, s_label, c_label, anchor_y) ==
  [act |-> "adder", stage_name |-> stage_name, kind |-> kind, col |-> col,
   removed |-> removed, s_label |-> s_label, c_label |-> c_label,
   anchor_y |-> anchor_y]

MoveAction(stage_name, label, col, old_y, new_y) ==
  [act |-> "move", stage_name |-> stage_name, label |-> label, col |-> col,
   old_y |-> old_y, new_y |-> new_y]

\* ------------------------------------------------------- board and layout
\* build_pp_bubbles: column c holds pp{i}[{j}], i + j = c, in increasing i
\* "[[] for _ in range(k)]"
RECURSIVE EmptyColumns(_)
EmptyColumns(k) == IF k = 0 THEN <<>> ELSE Append(EmptyColumns(k - 1), <<>>)

\* "for i in range(N): for j in range(N)", t = i * N + j
RECURSIVE AppendBubbles(_, _, _)
AppendBubbles(cols, n, t) ==
  IF t = n * n THEN cols
  ELSE AppendBubbles([cols EXCEPT ![(t \div n) + (t % n) + 1] =
                        Append(@, BitBubble(PPLabel(t \div n, t % n), "PP",
                                            (t \div n) + (t % n), t \div n))],
                     n, t + 1)

build_pp_bubbles(n) == AppendBubbles(EmptyColumns(2 * n - 1), n, 0)

\* _allowed_y_positions, ascending: the highest line first
_allowed_y_positions(n) == [k \in 1..(2 * n - 1) |-> (k - 1) - (n - 1) * ROW_GAP]

\* abs(yy - ex) > EPS, EPS = ROW_GAP * 0.30
FarEnough(yy, ex) == 10 * Abs(yy - ex) > 3 * ROW_GAP

RECURSIVE FirstFree(_, _)
FirstFree(allowed, existing) ==
  IF allowed = <<>> THEN 0
  ELSE IF \A ex \in existing : FarEnough(Head(allowed), ex) THEN Head(allowed)
  ELSE FirstFree(Tail(allowed), existing)

_highest_free_y_in_col(cols, col) ==
  FirstFree(_allowed_y_positions(N),
            IF col < Len(cols) THEN {cols[col + 1][i].y : i \in 1..Len(cols[col + 1])} ELSE {})

\* the positions a bubble's stage log holds, through stage_by_name: the log
\* being edited is its own entry, a committed stage's entry is its shadow
PositionsOf(s, name) ==
  IF name = 0 THEN EmptyMap
  ELSE IF s.curr # <<>> /\ s.curr[1].name = name THEN s.curr[1].positions
  ELSE IF name \in DOMAIN s.stage_by_name THEN s.stage_by_name[name]
  ELSE EmptyMap

SetPosition(s, name, label, y) ==
  IF name = 0 THEN s
  ELSE IF s.curr # <<>> /\ s.curr[1].name = name
    THEN [s EXCEPT !.curr[1].positions = MapPut(@, label, y)]
  ELSE IF name \in DOMAIN s.stage_by_name
    THEN [s EXCEPT !.stage_by_name[name] = MapPut(@, label, y)]
  ELSE s

\* layout_parallelogram, one bubble: a PP bubble goes to its row line, an
\* S or C bubble to its manual_y, which the stage's positions overrides
LayoutBubble(s, b) ==
  LET p == PositionsOf(s, b.stage_name)
      m == IF b.label \in DOMAIN p THEN Min(p[b.label], 0) ELSE b.manual_y
  IN IF b.kind = "PP"
       THEN [b EXCEPT !.y = -b.row * ROW_GAP]
       ELSE [b EXCEPT !.manual_y = m, !.y = Min(m, 0)]

\* "for b in pile" and "for col, pile in enumerate(self.columns)"
RECURSIVE LayoutPile(_, _)
LayoutPile(s, pile) ==
  IF pile = <<>> THEN <<>>
  ELSE <<LayoutBubble(s, Head(pile))>> \o LayoutPile(s, Tail(pile))

RECURSIVE LayoutColumns(_, _)
LayoutColumns(s, cols) ==
  IF cols = <<>> THEN <<>>
  ELSE <<LayoutPile(s, Head(cols))>> \o LayoutColumns(s, Tail(cols))

layout_parallelogram(s) == [s EXCEPT !.columns = LayoutColumns(s, s.columns)]

\* ------------------------------------------------- core: place one adder
Need(kind) == IF kind = "HA" THEN 2 ELSE 3

RECURSIVE RemoveAll(_, _)
RemoveAll(pile, blist) ==
  IF blist = <<>> THEN pile
  ELSE RemoveAll(RemoveFirst(pile, Head(blist)), Tail(blist))

\* _place_one_adder on the stage being edited; forced is <<>> or
\* <<s_label, c_label>>.  The result is the new state and the AdderAction
\* (act is <<>> when the code returns None).
_place_one_adder(s, col, blist, kind, allow_pad0, forced) ==
  IF blist = <<>> /\ ~allow_pad0 THEN [s |-> s, act |-> <<>>]
  ELSE
    LET need == Need(kind)
        st == s.curr[1]
        labels == [k \in 1..Len(blist) |-> blist[k].label]
        inputs == IF Len(blist) < need /\ allow_pad0
                    THEN labels \o [k \in 1..(need - Len(blist)) |-> ZERO]
                    ELSE labels
        bottom == CHOOSE k \in 1..Len(blist) :
                    /\ \A m \in 1..Len(blist) : blist[m].y <= blist[k].y
                    /\ \A m \in 1..(k - 1) : blist[m].y < blist[k].y
        y_bot == IF blist = <<>> THEN 0 ELSE blist[bottom].y
        row == IF blist = <<>> THEN 0 ELSE blist[bottom].row
        removed == [k \in 1..Len(blist) |-> BubbleSnapshot(blist[k])]
        s_name == IF forced = <<>> THEN BusLabel("S", st.name, st.s_seq) ELSE forced[1]
        c_name == IF forced = <<>> THEN BusLabel("C", st.name, st.c_seq) ELSE forced[2]
        s_bub == [BitBubble(s_name, "S", col, row) EXCEPT
                    !.stage_name = st.name, !.manual_y = Min(y_bot, 0)]
        cols1 == [s.columns EXCEPT ![col + 1] = RemoveAll(@, blist)]
        cols2 == IF col + 1 >= Len(cols1) THEN Append(cols1, <<>>) ELSE cols1
        c_bub == [BitBubble(c_name, "C", col + 1, row) EXCEPT
                    !.stage_name = st.name,
                    !.manual_y = Min(_highest_free_y_in_col(cols2, col + 1), 0)]
        cols3 == [cols2 EXCEPT ![col + 1] = Append(@, s_bub),
                               ![col + 2] = Append(@, c_bub)]
        st1 == [st EXCEPT
                  !.s_seq = IF forced = <<>> THEN @ + 1 ELSE @,
                  !.c_seq = IF forced = <<>> THEN @ + 1 ELSE @,
                  !.adders = Append(@, PlacedAdder(kind, col, inputs))]
    IN [s |-> [s EXCEPT !.columns = cols3, !.curr = <<st1>>],
        act |-> <<AdderAction(st.name, kind, col, removed, s_name, c_name, y_bot)>>]

\* --------------------------------------------------- replay and history
\* the bubbles of column col carrying the non-constant labels of inputs, in
\* the order of inputs (a label the column does not hold is skipped)
RECURSIVE FindInputs(_, _)
FindInputs(pile, inputs) ==
  IF inputs = <<>> THEN <<>>
  ELSE IF Head(inputs) = ZERO THEN FindInputs(pile, Tail(inputs))
  ELSE FindLabel(pile, Head(inputs)) \o FindInputs(pile, Tail(inputs))

PileAt(cols, col) == IF 0 <= col /\ col < Len(cols) THEN cols[col + 1] ELSE <<>>

\* what the callers of _place_one_adder do with its result r: the action,
\* if there is one, is appended to undo_actions (push), and redo_actions is
\* cleared (clear)
Pushed(r, push, clear) ==
  IF r.act = <<>> \/ ~push THEN r.s
  ELSE [r.s EXCEPT !.curr[1].undo_actions = Append(@, r.act[1]),
                   !.curr[1].redo_actions = IF clear THEN <<>> ELSE @]

\* one recorded adder replayed on the log in s.curr; record says whether the
\* caller appends the resulting action to that log's undo_actions
ReplayOne(s, a, record) ==
  Pushed(_place_one_adder(s, a.col,
                          SortByY(FindInputs(PileAt(s.columns, a.col), a.inputs)),
                          a.type, ZERO \in Range(a.inputs), <<>>),
         record, FALSE)

\* the loop "for a in src.adders" over a list that is not the log's own
RECURSIVE ReplayAdders(_, _, _)
ReplayAdders(s, adders, record) ==
  IF adders = <<>> THEN s
  ELSE ReplayAdders(ReplayOne(s, Head(adders), record), Tail(adders), record)

\* shadow = StageLog(name = src.name, ...); shadow.positions = dict(src.positions)
Shadow(src) == [StageLog(src.name) EXCEPT !.positions = src.positions]

\* self.stage_by_name[shadow.name] = shadow, and the shadow is no longer
\* the log placements go to
KeepShadow(s) ==
  [s EXCEPT !.stage_by_name = MapPut(@, s.curr[1].name, s.curr[1].positions),
            !.curr = <<>>]

\* one committed stage src replayed on its shadow and laid out
ReplayShadow(s, src) ==
  layout_parallelogram(
    ReplayAdders([s EXCEPT !.curr = <<Shadow(src)>>], src.adders, FALSE))

\* _collect_current_nodes: the nodes of the board, column by column, each
\* with the label it carries
_collect_current_nodes(s) ==
  [c \in 1..Len(s.columns) |-> [k \in 1..Len(s.columns[c]) |-> s.columns[c][k].label]]

\* "new_labels.extend([act.s_label, act.c_label])" over the placements the
\* replay made on the shadow log
new_labels(shadow) ==
  [i \in 1..(2 * Len(shadow.adders)) |->
     BusLabel(IF i % 2 = 1 THEN "S" ELSE "C", shadow.name, (i - 1) \div 2)]

StageHistory(stage_name, compare_to, curr_nodes, prev_nodes, labels) ==
  [stage_name |-> stage_name, compare_to |-> compare_to,
   curr_nodes |-> curr_nodes, prev_nodes |-> prev_nodes, new_labels |-> labels]

\* "prev_nodes" at the head of the loop body: the board collected before
\* the loop, then the curr_nodes of the entry before
PrevNodes(s) ==
  IF s.history = <<>> THEN _collect_current_nodes(s)
  ELSE s.history[Len(s.history)].curr_nodes

\* "self.history.append(StageHistory(...))" for stage idx = i - 1, replayed
\* on the shadow log r.curr
Recorded(r, i, prev_nodes) ==
  [r EXCEPT !.history =
     Append(@, StageHistory(r.curr[1].name,
                            IF i = 1 THEN "PP" ELSE r.stages[i - 1].name,
                            _collect_current_nodes(r), prev_nodes,
                            new_labels(r.curr[1])))]

\* _recompute_history_from_scratch, the body of "for idx, src in
\* enumerate(self.stages)" from stage i on: each committed stage is replayed
\* on a fresh shadow log, which stays behind in stage_by_name
RECURSIVE RecomputeFrom(_, _)
RecomputeFrom(s, i) ==
  IF i > Len(s.stages) THEN s
  ELSE
    RecomputeFrom(KeepShadow(Recorded(ReplayShadow(s, s.stages[i]), i, PrevNodes(s))),
                  i + 1)

\* the board rebuilt and laid out, history and stage_by_name cleared
RecomputeStart(s) ==
  [layout_parallelogram([s EXCEPT !.columns = build_pp_bubbles(N)])
     EXCEPT !.stage_by_name = EmptyMap, !.curr = <<>>, !.history = <<>>]

_recompute_history_from_scratch(s) == RecomputeFrom(RecomputeStart(s), 1)

\* the snapshots the loop takes, one after each stage ("curr_nodes"), each
\* with the shadow log the stage was replayed on
RECURSIVE ReplayBoards(_, _)
ReplayBoards(s, i) ==
  IF i > Len(s.stages) THEN <<>>
  ELSE <<ReplayShadow(s, s.stages[i])>>
       \o ReplayBoards(KeepShadow(ReplayShadow(s, s.stages[i])), i + 1)

board_states(s) == ReplayBoards(RecomputeStart(s), 1)

\* ------------------------------------------------------- stage lifecycle
\* _next_stage_name that does not look at the names in use
_next_stage_name_first(s) == 1

_next_stage_name(s) ==
  LET used == {s.stages[i].name : i \in 1..Len(s.stages)}
              \cup (IF s.curr # <<>> THEN {s.curr[1].name} ELSE {})
  IN CHOOSE n \in 1..(Cardinality(used) + 1) :
       n \notin used /\ \A m \in 1..(n - 1) : m \in used

\* on_new_stage without its check "if self.curr"
on_new_stage_unguarded(s) == [s EXCEPT !.curr = <<StageLog(_next_stage_name(s))>>]

on_new_stage(s) ==
  IF s.curr # <<>> THEN s
  ELSE [s EXCEPT !.curr = <<StageLog(_next_stage_name(s))>>]

on_finish_stage(s) ==
  IF s.curr = <<>> THEN s
  ELSE _recompute_history_from_scratch(
         [s EXCEPT !.stages = Append(@, s.curr[1]), !.curr = <<>>])

\* ---------------------------------------------------- placing by selection
\* the selected bubbles of one column, in any order the scene reports them
Selections(pile, k) ==
  {[i \in 1..k |-> pile[q[i]]] :
     q \in {f \in [1..k -> 1..Len(pile)] : \A a, b \in 1..k : a # b => f[a] # f[b]}}

_place_from_selection(s, kind, col, sel) ==
  IF s.curr = <<>> \/ Len(sel) # Need(kind) THEN s
  ELSE
    layout_parallelogram(
      Pushed(_place_one_adder(s, col, SortByY(sel), kind, FALSE, <<>>), TRUE, TRUE))

\* on_batch_apply with the bubbles selected in one column: the loop
\* "while idx < len(blist)" over the sorted selection, from position idx
RECURSIVE BatchChunks(_, _, _, _, _, _)
BatchChunks(s, col, blist, kind, pad0, idx) ==
  IF idx > Len(blist) THEN s
  ELSE
    LET need == Need(kind)
        take == SubSeq(blist, idx, Min(idx + need - 1, Len(blist)))
    IN IF Len(take) < need /\ ~pad0 THEN s
       ELSE
         BatchChunks(Pushed(_place_one_adder(s, col, take, kind, pad0, <<>>), TRUE, TRUE),
                     col, blist, kind, pad0, idx + need)

\* "if placed_any: self.layout_parallelogram()"
LaidOutIfPlaced(s, s1) == IF s1 # s THEN layout_parallelogram(s1) ELSE s

on_batch_apply(s, mode, pad0, col, sel) ==
  IF s.curr = <<>> \/ sel = <<>> THEN s
  ELSE
    LaidOutIfPlaced(
      s,
      IF mode = "smart"
        THEN IF Len(sel) \in {2, 3}
               THEN BatchChunks(s, col, SortByY(sel),
                                IF Len(sel) = 2 THEN "HA" ELSE "FA", FALSE, 1)
               ELSE s
        ELSE BatchChunks(s, col, SortByY(sel), mode, pad0, 1))

\* --------------------------------------------------------------- dragging
\* BitBubble.mouseReleaseEvent and _record_drag_move for one dragged bubble,
\* columns[c][k], released on the line new_y
SetBubble(s, c, k, y) ==
  [s EXCEPT !.columns[c][k].y = y,
            !.columns[c][k].manual_y = IF s.columns[c][k].kind = "PP" THEN NoY ELSE y]

\* _record_drag_move without "redo_actions.clear()"
_record_drag_move_keeps_redo(s, b, old_y, new_y) ==
  IF s.curr = <<>> THEN s
  ELSE [s EXCEPT
          !.curr[1].undo_actions = Append(@, MoveAction(b.stage_name, b.label, b.col, old_y, new_y))]

_record_drag_move(s, b, old_y, new_y) ==
  IF s.curr = <<>> THEN s
  ELSE [s EXCEPT
          !.curr[1].undo_actions = Append(@, MoveAction(b.stage_name, b.label, b.col, old_y, new_y)),
          !.curr[1].redo_actions = <<>>]

mouseReleaseEvent(s, c, k, new_y) ==
  LET b == s.columns[c][k]
      s1 == SetBubble(s, c, k, new_y)
      s2 == IF s.curr # <<>> /\ b.kind # "PP"
              THEN SetPosition(s1, b.stage_name, b.label, new_y)
              ELSE s1
  IN IF s.curr # <<>> /\ new_y # b.y THEN _record_drag_move(s2, b, b.y, new_y) ELSE s2

\* -------------------------------------------------------- undo and redo
RECURSIVE IndexOfLabel(_, _, _)
IndexOfLabel(pile, lab, k) ==
  IF k > Len(pile) THEN 0
  ELSE IF pile[k].label = lab THEN k
  ELSE IndexOfLabel(pile, lab, k + 1)

\* remove_label that gives up after the first column it looks in
remove_label_one_column(cols, lbl, c) ==
  IF c > Len(cols) \/ IndexOfLabel(cols[c], lbl, 1) = 0 THEN cols
  ELSE [cols EXCEPT ![c] = SubSeq(@, 1, IndexOfLabel(cols[c], lbl, 1) - 1)
                             \o SubSeq(@, IndexOfLabel(cols[c], lbl, 1) + 1, Len(@))]

\* remove_label: the first bubble with the label, columns scanned in order
RECURSIVE remove_label(_, _, _)
remove_label(cols, lbl, c) ==
  IF c > Len(cols) THEN cols
  ELSE LET k == IndexOfLabel(cols[c], lbl, 1)
       IN IF k = 0 THEN remove_label(cols, lbl, c + 1)
          ELSE [cols EXCEPT ![c] = SubSeq(@, 1, k - 1) \o SubSeq(@, k + 1, Len(@))]

\* a growth of one column at most
GrowTo_one_column(cols, col) == IF col >= Len(cols) THEN Append(cols, <<>>) ELSE cols

\* "while col >= len(columns): columns.append([])"
RECURSIVE GrowTo(_, _)
GrowTo(cols, col) == IF col >= Len(cols) THEN GrowTo(Append(cols, <<>>), col) ELSE cols

\* the loop "for s in act.removed" of on_undo
RECURSIVE Reinstate(_, _)
Reinstate(s, removed) ==
  IF removed = <<>> THEN s
  ELSE
    LET sn == Head(removed)
        y == Min(sn.y, 0)
        b == [label |-> sn.label, kind |-> sn.kind, col |-> sn.col, row |-> sn.row,
              y |-> y, manual_y |-> IF sn.kind = "PP" THEN NoY ELSE y,
              stage_name |-> sn.stage_name]
        s1 == [s EXCEPT !.columns = [GrowTo(@, sn.col) EXCEPT ![sn.col + 1] = Append(@, b)]]
    IN Reinstate(SetPosition(s1, sn.stage_name, sn.label, y), Tail(removed))

\* MoveTo that takes the line the bubble was dragged to, whatever y is
MoveTo_new_y(s, act, y) ==
  SetPosition(SetBubble(s, act.col + 1, IndexOfLabel(s.columns[act.col + 1], act.label, 1),
                        Min(act.new_y, 0)),
              act.stage_name, act.label, Min(act.new_y, 0))

\* undo or redo of a MoveAction to the line y; found is the bubble's index
MoveTo(s, act, y) ==
  LET k == IndexOfLabel(s.columns[act.col + 1], act.label, 1)
  IN SetPosition(SetBubble(s, act.col + 1, k, Min(y, 0)), act.stage_name, act.label, Min(y, 0))

MoveFound(s, act) == IndexOfLabel(s.columns[act.col + 1], act.label, 1) # 0

\* on_undo that, with no stage being edited, takes the last placement off
\* the last committed stage
on_undo_last_stage(s) ==
  IF s.curr = <<>> /\ s.stages # <<>>
    THEN [s EXCEPT !.stages[Len(s.stages)].adders =
                     IF @ # <<>> THEN SubSeq(@, 1, Len(@) - 1) ELSE @]
    ELSE s

\* on_undo without "st.s_seq -= 1; st.c_seq -= 1"
on_undo_keeps_counters(s) ==
  IF s.curr = <<>> THEN s
  ELSE IF s.curr[1].undo_actions = <<>> THEN s
  ELSE
    LET st == s.curr[1]
        act == st.undo_actions[Len(st.undo_actions)]
        s0 == [s EXCEPT !.curr[1].undo_actions = SubSeq(@, 1, Len(@) - 1)]
    IN IF act.act = "move"
         THEN IF MoveFound(s0, act)
                THEN [MoveTo(s0, act, act.old_y) EXCEPT !.curr[1].redo_actions = Append(@, act)]
                ELSE s0   \* act.s_label raises AttributeError: the handler ends here
         ELSE
           LET s1 == [s0 EXCEPT !.columns =
                        remove_label(remove_label(@, act.s_label, 1), act.c_label, 1)]
               s2 == Reinstate(s1, act.removed)
               s3 == [s2 EXCEPT
                        !.curr[1].adders = IF @ # <<>> THEN SubSeq(@, 1, Len(@) - 1) ELSE @,
                        !.curr[1].redo_actions = Append(@, act)]
           IN layout_parallelogram(s3)

on_undo(s) ==
  IF s.curr = <<>> THEN s
  ELSE IF s.curr[1].undo_actions = <<>> THEN s
  ELSE
    LET st == s.curr[1]
        act == st.undo_actions[Len(st.undo_actions)]
        s0 == [s EXCEPT !.curr[1].undo_actions = SubSeq(@, 1, Len(@) - 1)]
    IN IF act.act = "move"
         THEN IF MoveFound(s0, act)
                THEN [MoveTo(s0, act, act.old_y) EXCEPT !.curr[1].redo_actions = Append(@, act)]
                ELSE s0   \* act.s_label raises AttributeError: the handler ends here
         ELSE
           LET s1 == [s0 EXCEPT !.columns =
                        remove_label(remove_label(@, act.s_label, 1), act.c_label, 1)]
               s2 == Reinstate(s1, act.removed)
               s3 == [s2 EXCEPT
                        !.curr[1].adders = IF @ # <<>> THEN SubSeq(@, 1, Len(@) - 1) ELSE @,
                        !.curr[1].s_seq = IF @ > 0 THEN @ - 1 ELSE @,
                        !.curr[1].c_seq = IF @ > 0 THEN @ - 1 ELSE @,
                        !.curr[1].redo_actions = Append(@, act)]
           IN layout_parallelogram(s3)

\* the bubbles on_redo finds for the snapshots of act.removed
RECURSIVE FindRemoved(_, _)
FindRemoved(cols, removed) ==
  IF removed = <<>> THEN <<>>
  ELSE FindLabel(cols[Head(removed).col + 1], Head(removed).label)
       \o FindRemoved(cols, Tail(removed))

\* on_redo's call of _place_one_adder with the bubbles it found, and what it
\* does with the result r
RedoPlace(s, act, blist) ==
  _place_one_adder(s, act.col, blist, act.kind, Len(blist) < Need(act.kind),
                   <<act.s_label, act.c_label>>)

\* Redone without "st.s_seq += 1; st.c_seq += 1"
Redone_keeps_counters(r) ==
  IF r.act # <<>>
    THEN [r.s EXCEPT !.curr[1].undo_actions = Append(@, r.act[1])]
    ELSE r.s

Redone(r) ==
  IF r.act # <<>>
    THEN [r.s EXCEPT !.curr[1].undo_actions = Append(@, r.act[1]),
                     !.curr[1].s_seq = @ + 1,
                     !.curr[1].c_seq = @ + 1]
    ELSE r.s

on_redo(s) ==
  IF s.curr = <<>> THEN s
  ELSE IF s.curr[1].redo_actions = <<>> THEN s
  ELSE
    LET st == s.curr[1]
        act == st.redo_actions[Len(st.redo_actions)]
        s0 == [s EXCEPT !.curr[1].redo_actions = SubSeq(@, 1, Len(@) - 1)]
    IN IF act.act = "move"
         THEN IF MoveFound(s0, act)
                THEN [MoveTo(s0, act, act.new_y) EXCEPT !.curr[1].undo_actions = Append(@, act)]
                ELSE s0   \* act.removed raises AttributeError: the handler ends here
         ELSE
           layout_parallelogram(
             Redone(RedoPlace(s0, act, SortByY(FindRemoved(s0.columns, act.removed)))))

\* ------------------------------------------------- reopening and deleting
\* replay_stage(from_st) on the log in s.curr, from_st another object
replay_stage(s, from_st) ==
  IF s.curr = <<>> THEN s
  ELSE
    LET s0 == IF DOMAIN s.curr[1].positions = {}
                THEN [s EXCEPT !.curr[1].positions = from_st.positions] ELSE s
        s1 == layout_parallelogram(s0)
        s2 == [s1 EXCEPT !.curr[1].s_seq = 0, !.curr[1].c_seq = 0]
    IN layout_parallelogram(ReplayAdders(s2, from_st.adders, TRUE))

\* replay_stage(st) with self.curr = st: "for a in from_st.adders" runs over
\* the list _place_one_adder appends to.  The loop never ends once it appends
\* an adder holding 1'b0, which the next rounds place again and again.
RECURSIVE SelfReplayFrom(_, _)
SelfReplayFrom(s, i) ==
  IF i > Len(s.curr[1].adders) THEN [s |-> s, hung |-> FALSE]
  ELSE
    LET a == s.curr[1].adders[i]
        blist == FindInputs(PileAt(s.columns, a.col), a.inputs)
    IN IF ZERO \in Range(a.inputs) /\ Len(blist) < Need(a.type)
         THEN [s |-> s, hung |-> TRUE]
         ELSE SelfReplayFrom(ReplayOne(s, a, TRUE), i + 1)

\* the closing self.layout_parallelogram() of replay_stage
LaidOut(r) == [s |-> layout_parallelogram(r.s), hung |-> r.hung]

replay_stage_self(s) ==
  LaidOut(SelfReplayFrom([layout_parallelogram(s) EXCEPT
                            !.curr[1].s_seq = 0, !.curr[1].c_seq = 0], 1))

_refresh_history_preserving_current_edit(s) ==
  IF s.curr = <<>> THEN _recompute_history_from_scratch(s)
  ELSE
    replay_stage([_recompute_history_from_scratch([s EXCEPT !.curr = <<>>])
                    EXCEPT !.curr = <<Shadow(s.curr[1])>>],
                 s.curr[1])

StageIndex(s, name) ==
  IF \E i \in 1..Len(s.stages) : s.stages[i].name = name
    THEN CHOOSE i \in 1..Len(s.stages) :
           s.stages[i].name = name /\ \A j \in 1..(i - 1) : s.stages[j].name # name
    ELSE 0

\* the loop "for st in keep_final" of on_stage_double_clicked, from stage i
RECURSIVE ReplayKept(_, _)
RECURSIVE ReplayKeptNext(_, _)
ReplayKept(s, i) ==
  IF i > Len(s.stages) THEN [s |-> s, hung |-> FALSE]
  ELSE ReplayKeptNext(replay_stage_self([s EXCEPT !.curr = <<s.stages[i]>>]), i)

\* stage i, the object the replay r ran on, is in self.stages as the replay
\* left it, and the loop goes on
ReplayKeptNext(r, i) ==
  IF r.hung THEN r
  ELSE ReplayKept([r.s EXCEPT !.stages[i] = r.s.curr[1],
                              !.stage_by_name = MapPut(@, r.s.curr[1].name,
                                                       r.s.curr[1].positions),
                              !.curr = <<>>],
                  i + 1)

\* the end of on_stage_double_clicked: ed is the replay of the reopened
\* stage on itself
ReopenDone(ed) ==
  IF ed.hung THEN ed
  ELSE [s |-> _refresh_history_preserving_current_edit(ed.s), hung |-> FALSE]

\* kept is the replay of the stages before the reopened one, edit_stage the
\* reopened stage with its stacks cleared
ReopenEdit(kept, edit_stage) ==
  IF kept.hung THEN kept
  ELSE ReopenDone(replay_stage_self([kept.s EXCEPT !.curr = <<edit_stage>>]))

\* on_stage_double_clicked that does not ask: it goes on whatever the answer
on_stage_double_clicked_unasked(s, name, yes) ==
  IF (s.curr # <<>> /\ s.curr[1].name = name) \/ StageIndex(s, name) = 0
    THEN [s |-> s, hung |-> FALSE]
    ELSE ReopenEdit(ReplayKept([s EXCEPT !.stages = SubSeq((s.stages \o s.curr), 1, StageIndex(s, name) - 1),
                                         !.curr = <<>>,
                                         !.columns = build_pp_bubbles(N),
                                         !.stage_by_name = EmptyMap], 1),
                    [(s.stages \o s.curr)[StageIndex(s, name)] EXCEPT !.undo_actions = <<>>,
                                                         !.redo_actions = <<>>])

\* on_stage_double_clicked on the list item of stage name; yes is the answer
\* to the confirmation dialog.  hung: the handler never returns.
on_stage_double_clicked(s, name, yes) ==
  LET idx == StageIndex(s, name)
      same == [s |-> s, hung |-> FALSE]
  IN IF s.curr # <<>> /\ s.curr[1].name = name THEN same
     ELSE IF idx = 0 THEN same
     ELSE IF (idx # Len(s.stages) \/ s.curr # <<>>) /\ ~yes THEN same
     ELSE
       LET all == IF s.curr # <<>> THEN Append(s.stages, s.curr[1]) ELSE s.stages
       IN ReopenEdit(ReplayKept([s EXCEPT !.stages = SubSeq(all, 1, idx - 1),
                                          !.curr = <<>>,
                                          !.columns = build_pp_bubbles(N),
                                          !.stage_by_name = EmptyMap], 1),
                     [all[idx] EXCEPT !.undo_actions = <<>>, !.redo_actions = <<>>])

\* self.stages.append(shadow); self.stage_by_name[shadow.name] = shadow
StoreShadow(s) ==
  [s EXCEPT !.stages = Append(@, s.curr[1]),
            !.stage_by_name = MapPut(@, s.curr[1].name, s.curr[1].positions),
            !.curr = <<>>]

\* the loop "for st in keep" of on_delete_stage_and_followers
RECURSIVE RebuildKept(_, _)
RebuildKept(s, keep) ==
  IF keep = <<>> THEN s
  ELSE
    RebuildKept(StoreShadow(replay_stage([s EXCEPT !.curr = <<Shadow(Head(keep))>>],
                                         Head(keep))),
                Tail(keep))

\* on_delete_stage_and_followers that forgets to rebuild the board when it
\* drops the stage being edited
on_delete_stage_and_followers_keeps_board(s, name) ==
  IF StageIndex(s, name) = 0
    THEN IF s.curr # <<>> /\ s.curr[1].name = name THEN [s EXCEPT !.curr = <<>>] ELSE s
    ELSE _recompute_history_from_scratch(
           layout_parallelogram(
             RebuildKept(layout_parallelogram(
                           [s EXCEPT !.stages = <<>>, !.curr = <<>>,
                                     !.columns = build_pp_bubbles(N),
                                     !.stage_by_name = EmptyMap]),
                         SubSeq(s.stages, 1, StageIndex(s, name) - 1))))

\* on_delete_stage_and_followers with the list item of stage name selected
on_delete_stage_and_followers(s, name) ==
  LET idx == StageIndex(s, name)
  IN IF idx = 0
       THEN IF s.curr # <<>> /\ s.curr[1].name = name
              THEN _recompute_history_from_scratch([s EXCEPT !.curr = <<>>])
              ELSE s
       ELSE
         LET s1 == layout_parallelogram(
                     [s EXCEPT !.stages = <<>>, !.curr = <<>>,
                               !.columns = build_pp_bubbles(N),
                               !.stage_by_name = EmptyMap])
             s2 == RebuildKept(s1, SubSeq(s.stages, 1, idx - 1))
         IN _recompute_history_from_scratch(layout_parallelogram(s2))

\* ------------------------------------------------------ saving and loading
\* "positions": {k: float(min(v, 0.0)) ...}
RECURSIVE SavedPositions(_, _)
SavedPositions(p, keys) ==
  IF keys = {} THEN EmptyMap
  ELSE LET k == CHOOSE x \in keys : TRUE
       IN MapPut(SavedPositions(p, keys \ {k}), k, Min(p[k], 0))

\* "adders": [{"type": ad.type, "col": ad.col, "inputs": ad.inputs} ...]
RECURSIVE SavedAdders(_)
SavedAdders(adders) ==
  IF adders = <<>> THEN <<>>
  ELSE <<[type |-> Head(adders).type, col |-> Head(adders).col,
          inputs |-> Head(adders).inputs]>> \o SavedAdders(Tail(adders))

\* "for st in self.stages + ([self.curr] if self.curr else [])"
RECURSIVE SavedStages(_)
SavedStages(logs) ==
  IF logs = <<>> THEN <<>>
  ELSE <<[name |-> Head(logs).name,
          positions |-> SavedPositions(Head(logs).positions, DOMAIN Head(logs).positions),
          adders |-> SavedAdders(Head(logs).adders)]>> \o SavedStages(Tail(logs))

\* on_export_json: the object json.dump writes (the name and bus templates
\* and the colour of a stage are the defaults)
on_export_json(s) == [N |-> N, stages |-> SavedStages(s.stages \o s.curr)]

\* on_load_json, "srcs": one StageLog per stage of the file
RECURSIVE LoadedStages(_)
LoadedStages(obj_stages) ==
  IF obj_stages = <<>> THEN <<>>
  ELSE <<[StageLog(Head(obj_stages).name) EXCEPT
            !.positions = Head(obj_stages).positions,
            !.adders = Head(obj_stages).adders]>> \o LoadedStages(Tail(obj_stages))

\* on_load_json with the file obj chosen: the board is seeded again, every
\* stage of the file is replayed on a shadow log and committed
on_load_json(s, obj) ==
  _recompute_history_from_scratch(
    layout_parallelogram(
      RebuildKept(layout_parallelogram(
                    [s EXCEPT !.columns = build_pp_bubbles(obj.N),
                              !.stages = <<>>, !.curr = <<>>,
                              !.stage_by_name = EmptyMap, !.history = <<>>]),
                  LoadedStages(obj.stages))))

\* ------------------------------------------------ batch reduction engine
\* gen_wallace.py works on columns of labels.  An Adder is a record
\* [type, col, inputs], inputs = <<>> standing for None or an empty list; a
\* Stage is its name and its adders (the bus and name templates are the
\* defaults).
ONE == [bus |-> "1'b1", n |-> 0, idx |-> 0]

\* a seeding with the loops exchanged: "for j ...: for i ...", t = j * N + i
RECURSIVE AppendTokens_by_bit(_, _, _)
AppendTokens_by_bit(cols, n, t) ==
  IF t = n * n THEN cols
  ELSE AppendTokens_by_bit([cols EXCEPT ![(t \div n) + (t % n) + 1] =
                              Append(@, PPLabel(t % n, t \div n))],
                           n, t + 1)

\* "for i in range(N): for j in range(N)", t = i * N + j
RECURSIVE AppendTokens(_, _, _)
AppendTokens(cols, n, t) ==
  IF t = n * n THEN cols
  ELSE AppendTokens([cols EXCEPT ![(t \div n) + (t % n) + 1] =
                       Append(@, PPLabel(t \div n, t % n))],
                    n, t + 1)

\* a seeding on a board of 2N columns
build_initial_columns_wide(n) == AppendTokens(EmptyColumns(2 * n), n, 0)

\* "cols = [[] for _ in range(2 * N - 1)]" and the two loops
build_initial_columns(n) == AppendTokens(EmptyColumns(2 * n - 1), n, 0)

\* the first column, in order, that holds the token; 0 when none does
RECURSIVE FirstPileWith(_, _, _)
FirstPileWith(cols, token, c) ==
  IF c > Len(cols) THEN 0
  ELSE IF token \in Range(cols[c]) THEN c
  ELSE FirstPileWith(cols, token, c + 1)

\* _remove_token_once that leaves the token on its column
_remove_token_once_keeps(cols, preferred_col, token) ==
  [columns |-> cols,
   ok |-> token \in {ZERO, ONE} \/ FirstPileWith(cols, token, 1) # 0]

\* _remove_token_once that searches the columns in order and never looks
\* at the preferred column first
_remove_token_once_in_order(cols, preferred_col, token) ==
  IF token \in {ZERO, ONE} THEN [columns |-> cols, ok |-> TRUE]
  ELSE IF FirstPileWith(cols, token, 1) # 0
    THEN [columns |-> [cols EXCEPT ![FirstPileWith(cols, token, 1)] = RemoveFirst(@, token)],
          ok |-> TRUE]
  ELSE [columns |-> cols, ok |-> FALSE]

\* _remove_token_once: the columns after the call and the value returned
_remove_token_once(cols, preferred_col, token) ==
  IF token \in {ZERO, ONE} THEN [columns |-> cols, ok |-> TRUE]
  ELSE IF 0 <= preferred_col /\ preferred_col < Len(cols)
          /\ token \in Range(cols[preferred_col + 1])
    THEN [columns |-> [cols EXCEPT ![preferred_col + 1] = RemoveFirst(@, token)],
          ok |-> TRUE]
  ELSE IF FirstPileWith(cols, token, 1) # 0
    THEN [columns |-> [cols EXCEPT ![FirstPileWith(cols, token, 1)] = RemoveFirst(@, token)],
          ok |-> TRUE]
  ELSE [columns |-> cols, ok |-> FALSE]

\* the loop "for token in inps" without its warning
RECURSIVE RemoveTokens_silent(_, _, _)
RemoveTokens_silent(b, col, inps) ==
  IF inps = <<>> THEN b
  ELSE RemoveTokens_silent(
         [columns |-> _remove_token_once(b.columns, col, Head(inps)).columns,
          warn_lines |-> b.warn_lines],
         col, Tail(inps))

\* the loop "for token in inps" of apply_stage: b is [columns, warn_lines]
RECURSIVE RemoveTokens(_, _, _)
RemoveTokens(b, col, inps) ==
  IF inps = <<>> THEN b
  ELSE RemoveTokens(
         [columns |-> _remove_token_once(b.columns, col, Head(inps)).columns,
          warn_lines |-> IF _remove_token_once(b.columns, col, Head(inps)).ok
                           THEN b.warn_lines
                           ELSE Append(b.warn_lines, <<"input not found", col, Head(inps)>>)],
         col, Tail(inps))

\* a take that wires the labels in the order the column held them
PopTake_held_order(pile, need) ==
  [k \in 1..need |->
     IF k <= Len(pile) THEN pile[Len(pile) - Min(need, Len(pile)) + k] ELSE ZERO]

\* "take.append(pile.pop() if pile else 1'b0)", need times
PopTake(pile, need) ==
  [k \in 1..need |-> IF k <= Len(pile) THEN pile[Len(pile) - k + 1] ELSE ZERO]

\* a take that removes one label only from the pile
PopRest_one(pile, need) == SubSeq(pile, 1, Len(pile) - Min(1, Len(pile)))

\* the pile after the pops
PopRest(pile, need) == SubSeq(pile, 1, Len(pile) - Min(need, Len(pile)))

\* taking the inputs without the warning of a column out of range
TakeInputs_unwarned(b, ad) ==
  IF ad.inputs # <<>>
    THEN [columns |-> RemoveTokens(b, ad.col, ad.inputs).columns,
          warn_lines |-> RemoveTokens(b, ad.col, ad.inputs).warn_lines,
          inps |-> ad.inputs]
  ELSE IF ad.col < 0 \/ ad.col >= Len(b.columns)
    THEN [columns |-> b.columns,
          warn_lines |-> b.warn_lines,
          inps |-> [k \in 1..(IF ad.type = "FA" THEN 3 ELSE 2) |-> ZERO]]
  ELSE [columns |-> [b.columns EXCEPT ![ad.col + 1] =
                       PopRest(@, IF ad.type = "FA" THEN 3 ELSE 2)],
        warn_lines |-> b.warn_lines,
        inps |-> PopTake(b.columns[ad.col + 1], IF ad.type = "FA" THEN 3 ELSE 2)]

\* the inputs of one adder: [columns, warn_lines, inps]
TakeInputs(b, ad) ==
  IF ad.inputs # <<>>
    THEN [columns |-> RemoveTokens(b, ad.col, ad.inputs).columns,
          warn_lines |-> RemoveTokens(b, ad.col, ad.inputs).warn_lines,
          inps |-> ad.inputs]
  ELSE IF ad.col < 0 \/ ad.col >= Len(b.columns)
    THEN [columns |-> b.columns,
          warn_lines |-> Append(b.warn_lines, <<"column out of range", ad.col, ZERO>>),
          inps |-> [k \in 1..(IF ad.type = "FA" THEN 3 ELSE 2) |-> ZERO]]
  ELSE [columns |-> [b.columns EXCEPT ![ad.col + 1] =
                       PopRest(@, IF ad.type = "FA" THEN 3 ELSE 2)],
        warn_lines |-> b.warn_lines,
        inps |-> PopTake(b.columns[ad.col + 1], IF ad.type = "FA" THEN 3 ELSE 2)]

\* a write-back that puts the bit at the head of its column
WriteBack_front(cols, col, bit) ==
  IF col >= 0 THEN [GrowTo(cols, col) EXCEPT ![col + 1] = <<bit>> \o @] ELSE cols

\* "while col >= len(columns): columns.append([])"; columns[col].append(bit)
WriteBack(cols, col, bit) ==
  IF col >= 0 THEN [GrowTo(cols, col) EXCEPT ![col + 1] = Append(@, bit)] ELSE cols

\* (inps + [1'b0] * need)[:need]
Operands(inps, need) == [k \in 1..need |-> IF k <= Len(inps) THEN inps[k] ELSE ZERO]

\* a round that counts instances only: a placement of unknown type leaves
\* the sequence counters alone
Instantiate_counts_instances(b, name, ad, t) ==
  IF ad.type \in {"HA", "FA"}
    THEN [columns |-> WriteBack(WriteBack(t.columns, ad.col, BusLabel("S", name, b.s_seq)),
                                ad.col + 1, BusLabel("C", name, b.c_seq)),
          warn_lines |-> t.warn_lines
                           \o (IF ad.col < 0
                                 THEN <<<<"S dropped", ad.col, BusLabel("S", name, b.s_seq)>>>>
                                 ELSE <<>>)
                           \o (IF ad.col + 1 < 0
                                 THEN <<<<"C dropped", ad.col + 1, BusLabel("C", name, b.c_seq)>>>>
                                 ELSE <<>>),
          inst_lines |-> Append(b.inst_lines,
                                [type |-> ad.type,
                                 inputs |-> Operands(t.inps, Need(ad.type)),
                                 s_bit |-> BusLabel("S", name, b.s_seq),
                                 c_bit |-> BusLabel("C", name, b.c_seq)]),
          s_seq |-> b.s_seq + 1,
          c_seq |-> b.c_seq + 1]
    ELSE [columns |-> t.columns,
          warn_lines |-> Append(t.warn_lines, <<"unknown adder type", ad.col, ZERO>>),
          inst_lines |-> b.inst_lines,
          s_seq |-> b.s_seq,
          c_seq |-> b.c_seq]

\* one round of "for ad in st.adders" after the inputs t were taken; b is
\* [columns, warn_lines, inst_lines, s_seq, c_seq]
Instantiate(b, name, ad, t) ==
  IF ad.type \in {"HA", "FA"}
    THEN [columns |-> WriteBack(WriteBack(t.columns, ad.col, BusLabel("S", name, b.s_seq)),
                                ad.col + 1, BusLabel("C", name, b.c_seq)),
          warn_lines |-> t.warn_lines
                           \o (IF ad.col < 0
                                 THEN <<<<"S dropped", ad.col, BusLabel("S", name, b.s_seq)>>>>
                                 ELSE <<>>)
                           \o (IF ad.col + 1 < 0
                                 THEN <<<<"C dropped", ad.col + 1, BusLabel("C", name, b.c_seq)>>>>
                                 ELSE <<>>),
          inst_lines |-> Append(b.inst_lines,
                                [type |-> ad.type,
                                 inputs |-> Operands(t.inps, Need(ad.type)),
                                 s_bit |-> BusLabel("S", name, b.s_seq),
                                 c_bit |-> BusLabel("C", name, b.c_seq)]),
          s_seq |-> b.s_seq + 1,
          c_seq |-> b.c_seq + 1]
    ELSE [columns |-> t.columns,
          warn_lines |-> Append(t.warn_lines, <<"unknown adder type", ad.col, ZERO>>),
          inst_lines |-> b.inst_lines,
          s_seq |-> b.s_seq + 1,
          c_seq |-> b.c_seq + 1]

RECURSIVE ApplyAdders(_, _, _)
ApplyAdders(b, name, adders) ==
  IF adders = <<>> THEN b
  ELSE ApplyAdders(Instantiate(b, name, Head(adders),
                               TakeInputs([columns |-> b.columns,
                                           warn_lines |-> b.warn_lines], Head(adders))),
                   name, Tail(adders))

\* apply_stage: the columns it leaves and what it returns
apply_stage(cols, st) ==
  ApplyAdders([columns |-> cols, warn_lines |-> <<>>, inst_lines |-> <<>>,
               s_seq |-> 0, c_seq |-> 0],
              st.name, st.adders)

\* generate_verilog's loop "for st in plan.stages": what apply_stage leaves
\* and returns, stage after stage
RECURSIVE BatchBoards(_, _)
BatchBoards(cols, plan_stages) ==
  IF plan_stages = <<>> THEN <<>>
  ELSE <<apply_stage(cols, Head(plan_stages))>>
       \o BatchBoards(apply_stage(cols, Head(plan_stages)).columns, Tail(plan_stages))

\* ------------------------------------------------------------ the machine
Now == [columns |-> columns, stages |-> stages, curr |-> curr,
        stage_by_name |-> stage_by_name, history |-> history]

Step(s, op, d, n) ==
  /\ columns' = s.columns
  /\ stages' = s.stages
  /\ curr' = s.curr
  /\ stage_by_name' = s.stage_by_name
  /\ history' = s.history
  /\ files' = files
  /\ hung' = hung
  /\ lastOp' = op
  /\ drags' = d
  /\ steps' = n
  /\ UNCHANGED batch

\* a handler has run
Becomes(s, op) == Step(s, op, drags, steps + 1)

\* a handler has run on a request it rejects
Rejected(s) == Step(s, lastOp, drags, steps)

Ready == ~hung /\ steps < MaxSteps

StageNames == {stages[i].name : i \in 1..Len(stages)}
                \cup (IF curr # <<>> THEN {curr[1].name} ELSE {})

\* the stage logs of the session: the committed ones and the one being edited
Logs(s) == s.stages \o s.curr

RECURSIVE AdderCount(_)
AdderCount(logs) ==
  IF logs = <<>> THEN 0 ELSE Len(Head(logs).adders) + AdderCount(Tail(logs))

RECURSIVE PadCount(_)
PadCount(logs) ==
  IF logs = <<>> THEN 0
  ELSE Cardinality({k \in 1..Len(Head(logs).adders) :
                      ZERO \in Range(Head(logs).adders[k].inputs)})
       + PadCount(Tail(logs))

\* the column of the batch selections (each the whole column) and of the
\* drag gestures: the one that holds more than one partial product
WorkCol == N - 1

\* the window after MainWin.__init__
MainWin ==
  /\ columns = layout_parallelogram(
                 [columns |-> build_pp_bubbles(N), stages |-> <<>>, curr |-> <<>>,
                  stage_by_name |-> EmptyMap, history |-> <<>>]).columns
  /\ stages = <<>>
  /\ curr = <<>>
  /\ stage_by_name = EmptyMap
  /\ history = <<>>
  /\ files = <<>>
  /\ hung = FALSE
  /\ lastOp = "init"
  /\ drags = 0
  /\ steps = 0

\* no request to the generators
NoJob == [via |-> "none", n |-> 0,
          file |-> [kind |-> "none", N |-> <<>>, stages |-> <<>>]]

NoRun == [pc |-> "idle"]

Init ==
  /\ MainWin
  /\ job = NoJob
  /\ run = NoRun

NewStage ==
  /\ Ready
  /\ curr = <<>>
  /\ Len(stages) < MaxStages
  /\ Becomes(on_new_stage(Now), "new_stage")

NewStageWhileEditing ==
  /\ ~hung
  /\ curr # <<>>
  /\ Rejected(on_new_stage(Now))

FinishStage ==
  /\ Ready
  /\ curr # <<>>
  /\ Becomes(on_finish_stage(Now), "finish_stage")

FinishStageWhileIdle ==
  /\ ~hung
  /\ curr = <<>>
  /\ Rejected(on_finish_stage(Now))

PlaceFromSelection ==
  /\ Ready
  /\ curr # <<>>
  /\ AdderCount(Logs(Now)) < MaxAdders
  /\ \E kind \in {"HA", "FA"}, c \in 1..Len(columns) :
       \E sel \in Selections(columns[c], Need(kind)) :
         Becomes(_place_from_selection(Now, kind, c - 1, sel), "place")

Batched(s1) ==
  /\ s1 # Now
  /\ AdderCount(Logs(s1)) <= MaxAdders
  /\ PadCount(Logs(s1)) <= MaxPads
  /\ Becomes(s1, "batch")

BatchApply ==
  /\ Ready
  /\ curr # <<>>
  /\ \E mode \in {"HA", "FA", "smart"}, pad0 \in BOOLEAN, c \in {WorkCol + 1} :
       \E k \in {Len(columns[c])} :
         \E sel \in Selections(columns[c], k) :
           Batched(on_batch_apply(Now, mode, pad0, c - 1, sel))

Drag ==
  /\ Ready
  /\ curr # <<>>
  /\ drags < MaxMoves
  /\ \E c \in {WorkCol + 1} :
       \E k \in 1..Len(columns[c]), y \in Range(_allowed_y_positions(N)) :
         /\ y # columns[c][k].y
         /\ Step(mouseReleaseEvent(Now, c, k, y), "drag", drags + 1, steps + 1)

Undo ==
  /\ Ready
  /\ curr # <<>>
  /\ curr[1].undo_actions # <<>>
  /\ Becomes(on_undo(Now),
             IF curr[1].undo_actions[Len(curr[1].undo_actions)].act = "move"
               THEN "undo_move" ELSE "undo_adder")

Redo ==
  /\ Ready
  /\ curr # <<>>
  /\ curr[1].redo_actions # <<>>
  /\ Becomes(on_redo(Now),
             IF curr[1].redo_actions[Len(curr[1].redo_actions)].act = "move"
               THEN "redo_move" ELSE "redo_adder")

UndoRedoWhileIdle ==
  /\ ~hung
  /\ curr = <<>>
  /\ \/ Rejected(on_undo(Now))
     \/ Rejected(on_redo(Now))

\* r is what on_stage_double_clicked comes to: a new state, or no return
Reopened(r) ==
  IF r.hung
    THEN /\ hung' = TRUE
         /\ lastOp' = "reopen"
         /\ steps' = steps + 1
         /\ UNCHANGED <<columns, stages, curr, stage_by_name, history, files, drags, batch>>
    ELSE Becomes(r.s, "reopen")

Reopen ==
  /\ Ready
  /\ \E i \in 1..Len(stages) :
       /\ AdderCount(Logs(Now)) <= MaxAdders
       /\ Reopened(on_stage_double_clicked(Now, stages[i].name, TRUE))

ReopenDeclined ==
  /\ ~hung
  /\ \E i \in 1..Len(stages) :
       /\ i # Len(stages) \/ curr # <<>>
       /\ Rejected(on_stage_double_clicked(Now, stages[i].name, FALSE).s)

DeleteStageAndFollowers ==
  /\ Ready
  /\ \E name \in StageNames :
       Becomes(on_delete_stage_and_followers(Now, name),
               IF curr # <<>> /\ curr[1].name = name THEN "discard" ELSE "delete")

\* on_export_json writes a plan file
ExportJson ==
  /\ Ready
  /\ Len(files) < MaxFiles
  /\ files' = Append(files, on_export_json(Now))
  /\ lastOp' = "export"
  /\ steps' = steps + 1
  /\ UNCHANGED <<columns, stages, curr, stage_by_name, history, hung, drags, batch>>

\* on_load_json reads one of the plan files written
LoadJson ==
  /\ Ready
  /\ \E k \in 1..Len(files) : Becomes(on_load_json(Now, files[k]), "load")

Next ==
  \/ ExportJson
  \/ LoadJson
  \/ NewStage
  \/ NewStageWhileEditing
  \/ FinishStage
  \/ FinishStageWhileIdle
  \/ PlaceFromSelection
  \/ BatchApply
  \/ Drag
  \/ Undo
  \/ Redo
  \/ UndoRedoWhileIdle
  \/ Reopen
  \/ ReopenDeclined
  \/ DeleteStageAndFollowers

Spec == Init /\ [][Next]_vars

\* ------------------------------------------------------ the generators
\* A plan file is [kind, N, stages]: kind is "none" (no path was given),
\* "missing", "unreadable", "garbage" (not JSON) or "json"; N is <<>> when the
\* object has no key N.  A Stage is [name, adders], an Adder [type, col,
\* inputs], inputs = <<>> when the key is absent or its list is empty.
Adder(type, col, inputs) == [type |-> type, col |-> col, inputs |-> inputs]

Stage(name, adders) == [name |-> name, adders |-> adders]

\* read_json and json.load: whether the file gives an object
Readable(file) == file.kind = "json"

\* load_plan_get_N: the N of the file, 0 standing for None
load_plan_get_N(file) ==
  IF ~Readable(file) \/ file.N = <<>> THEN 0 ELSE file.N[1]

\* load_plan: <<>> when open or json.load raises, else the Plan
load_plan(file) ==
  IF ~Readable(file) THEN <<>>
  ELSE <<[N |-> IF file.N = <<>> THEN DefaultN ELSE file.N[1], stages |-> file.stages]>>

\* the request as it starts
Started ==
  [pc |-> "start", plan |-> <<>>, cols |-> <<>>, k |-> 0, j |-> 0,
   st |-> [warn_lines |-> <<>>, inst_lines |-> <<>>, s_seq |-> 0, c_seq |-> 0],
   inst_lines |-> <<>>, warn_lines |-> <<>>, opa |-> <<>>, opb |-> <<>>,
   written |-> {}, reported |-> <<>>]

\* messagebox.showerror(title, ...); return
Aborted(r, title) == [r EXCEPT !.pc = "aborted", !.reported = Append(@, title)]

\* do_generate up to the first write: the checks of n and of the plan file
do_generate_checks(r, jb) ==
  IF jb.n < 2 THEN Aborted(r, "illegal width")
  ELSE IF jb.file.kind = "none" THEN [r EXCEPT !.pc = "parts"]
  ELSE IF jb.file.kind = "missing" THEN Aborted(r, "plan.json does not exist")
  ELSE IF load_plan_get_N(jb.file) = 0 THEN Aborted(r, "plan.json invalid")
  ELSE IF load_plan_get_N(jb.file) # jb.n THEN Aborted(r, "width mismatch")
  ELSE [r EXCEPT !.pc = "parts"]

\* do_generate, steps 0 to 2: adders.v, the Booth module and the final adder
\* are written; with no plan file the Wallace tree is skipped with a warning
do_generate_parts(r, jb) ==
  IF jb.file.kind = "none"
    THEN [r EXCEPT !.pc = "top", !.written = @ \cup {"adders", "Booth", "CS_Adder"},
                   !.reported = Append(@, "no plan.json")]
    ELSE [r EXCEPT !.pc = "load", !.written = @ \cup {"adders", "Booth", "CS_Adder"}]

\* gen_wallace.main: the plan of the arguments
main_args(r, jb) ==
  IF jb.file.kind = "none"
    THEN [r EXCEPT !.pc = "generate", !.plan = <<[N |-> jb.n, stages |-> <<>>]>>]
    ELSE [r EXCEPT !.pc = "load"]

\* plan = load_plan(path): an exception ends the request (do_generate shows
\* it, main dies with it); do_generate compares the width once more
loaded(r, jb) ==
  IF load_plan(jb.file) = <<>>
    THEN [r EXCEPT !.pc = "failed", !.reported = Append(@, "exception")]
  ELSE IF jb.via = "tk" /\ load_plan(jb.file)[1].N # jb.n
    THEN Aborted(r, "width mismatch")
  ELSE [r EXCEPT !.pc = "generate", !.plan = load_plan(jb.file)]

\* generate_verilog, the head: the board is seeded
generate_verilog_head(r) ==
  [r EXCEPT !.pc = "stage", !.cols = build_initial_columns(r.plan[1].N), !.k = 1]

\* "for st in plan.stages": apply_stage starts on stage k with empty lists
\* and counters, or the loop has ended
stage_head(r) ==
  IF r.k > Len(r.plan[1].stages) THEN [r EXCEPT !.pc = "finalize"]
  ELSE [r EXCEPT !.pc = "adder", !.j = 1,
                 !.st = [warn_lines |-> <<>>, inst_lines |-> <<>>,
                         s_seq |-> 0, c_seq |-> 0]]

\* the stage and the adder the loops stand at
StageAt(r) == r.plan[1].stages[r.k]

AdderAt(r) == StageAt(r).adders[r.j]

\* apply_stage on the board and the lists of r
Engine(r) ==
  [columns |-> r.cols, warn_lines |-> r.st.warn_lines, inst_lines |-> r.st.inst_lines,
   s_seq |-> r.st.s_seq, c_seq |-> r.st.c_seq]

\* one round of "for ad in st.adders"
Applied(r) ==
  Instantiate(Engine(r), StageAt(r).name, AdderAt(r),
              TakeInputs([columns |-> r.cols, warn_lines |-> r.st.warn_lines], AdderAt(r)))

\* a round that ends the stage after a placement on a negative column
adder_round_stops(r) ==
  [r EXCEPT !.cols = Applied(r).columns,
            !.st = [warn_lines |-> Applied(r).warn_lines,
                    inst_lines |-> Applied(r).inst_lines,
                    s_seq |-> Applied(r).s_seq, c_seq |-> Applied(r).c_seq],
            !.j = IF AdderAt(r).col < 0 THEN Len(StageAt(r).adders) + 1 ELSE @ + 1]

\* a round that takes the explicit inputs it resolved out of the plan
adder_round_empties_plan(r) ==
  [r EXCEPT !.cols = Applied(r).columns,
            !.st = [warn_lines |-> Applied(r).warn_lines,
                    inst_lines |-> Applied(r).inst_lines,
                    s_seq |-> Applied(r).s_seq, c_seq |-> Applied(r).c_seq],
            !.plan[1].stages[r.k].adders[r.j].inputs = <<>>,
            !.j = @ + 1]

\* the round ends: the loop stands at the next placement
adder_round(r) ==
  [r EXCEPT !.cols = Applied(r).columns,
            !.st = [warn_lines |-> Applied(r).warn_lines,
                    inst_lines |-> Applied(r).inst_lines,
                    s_seq |-> Applied(r).s_seq, c_seq |-> Applied(r).c_seq],
            !.j = @ + 1]

\* apply_stage returns: inst_lines.extend(insts), warn_lines.extend(warns)
stage_tail(r) ==
  [r EXCEPT !.pc = "stage", !.k = @ + 1,
            !.inst_lines = Append(@, r.st.inst_lines),
            !.warn_lines = @ \o r.st.warn_lines]

\* "for col in range(min(len(cols), W))": bit col of opa and of opb, and the
\* warning of a column with more than two labels left
\* a finalization that gives opb the last label of a column
RECURSIVE Finalized_last(_, _, _)
Finalized_last(cols, W, col) ==
  IF col = W THEN [opa |-> <<>>, opb |-> <<>>, warn_lines |-> <<>>]
  ELSE
    [opa |-> <<IF Len(PileAt(cols, col)) >= 1 THEN cols[col + 1][1] ELSE ZERO>>
               \o Finalized_last(cols, W, col + 1).opa,
     opb |-> <<IF Len(PileAt(cols, col)) >= 2
                 THEN cols[col + 1][Len(cols[col + 1])] ELSE ZERO>>
               \o Finalized_last(cols, W, col + 1).opb,
     warn_lines |-> (IF Len(PileAt(cols, col)) > 2
                       THEN <<<<"more than two left", col, ZERO>>>> ELSE <<>>)
                    \o Finalized_last(cols, W, col + 1).warn_lines]

RECURSIVE Finalized(_, _, _)
Finalized(cols, W, col) ==
  IF col = W THEN [opa |-> <<>>, opb |-> <<>>, warn_lines |-> <<>>]
  ELSE
    [opa |-> <<IF Len(PileAt(cols, col)) >= 1 THEN cols[col + 1][1] ELSE ZERO>>
               \o Finalized(cols, W, col + 1).opa,
     opb |-> <<IF Len(PileAt(cols, col)) >= 2 THEN cols[col + 1][2] ELSE ZERO>>
               \o Finalized(cols, W, col + 1).opb,
     warn_lines |-> (IF Len(PileAt(cols, col)) > 2
                       THEN <<<<"more than two left", col, ZERO>>>> ELSE <<>>)
                    \o Finalized(cols, W, col + 1).warn_lines]

\* a tail that gives every column of the board a bit of opa and of opb
generate_verilog_tail_all_columns(r) ==
  [r EXCEPT !.pc = "emit",
            !.opa = Finalized(r.cols, Max(Len(r.cols), 2 * r.plan[1].N), 0).opa,
            !.opb = Finalized(r.cols, Max(Len(r.cols), 2 * r.plan[1].N), 0).opb,
            !.warn_lines = @ \o Finalized(r.cols, 2 * r.plan[1].N, 0).warn_lines]

\* generate_verilog, the tail: opa and opb, W = 2N bits each
generate_verilog_tail(r) ==
  [r EXCEPT !.pc = "emit",
            !.opa = Finalized(r.cols, 2 * r.plan[1].N, 0).opa,
            !.opb = Finalized(r.cols, 2 * r.plan[1].N, 0).opb,
            !.warn_lines = @ \o Finalized(r.cols, 2 * r.plan[1].N, 0).warn_lines]

\* the text goes to WallaceTree{n}x{n}.v (do_generate) or to --out (main)
emitted(r, jb) ==
  IF jb.via = "tk" THEN [r EXCEPT !.pc = "top", !.written = @ \cup {"WallaceTree"}]
  ELSE [r EXCEPT !.pc = "done", !.written = @ \cup {"out"}]

\* do_generate, step 4: TopMultiplier.v
do_generate_top(r) == [r EXCEPT !.pc = "done", !.written = @ \cup {"TopMultiplier"}]

\* the placements of the plan files
PlanInputs ==
  {<<>>,
   <<PPLabel(0, 1), PPLabel(1, 0)>>,
   <<PPLabel(0, 1), ZERO>>,
   <<PPLabel(0, 1), PPLabel(1, 0), PPLabel(1, 1)>>}

PlanAdders ==
  {Adder(type, col, inputs) : type \in {"HA", "FA"}, col \in {-1, 1, 3}, inputs \in PlanInputs}
    \cup {Adder("XA", 1, <<>>), Adder("HA", 4, <<>>)}

AdderLists == UNION {[1..m -> PlanAdders] : m \in 0..MaxPlanAdders}

\* one stage of up to MaxPlanAdders placements, or two stages of which the
\* first has one
PlanStages ==
  {<<>>}
    \cup {<<Stage(1, adders)>> : adders \in AdderLists}
    \cup {<<Stage(1, <<a>>), Stage(2, adders)>> :
            a \in PlanAdders, adders \in [1..(MaxPlanAdders - 1) -> PlanAdders]}

PlanFiles ==
  {[kind |-> kind, N |-> <<>>, stages |-> <<>>] :
     kind \in {"none", "missing", "unreadable", "garbage"}}
    \cup {[kind |-> "json", N |-> width, stages |-> plan_stages] :
            width \in {<<>>, <<2>>}, plan_stages \in PlanStages}
    \cup {[kind |-> "json", N |-> <<MaxWidth>>, stages |-> <<>>]}

Jobs ==
  {[via |-> "tk", n |-> n, file |-> file] : n \in 1..MaxWidth, file \in PlanFiles}
    \cup {[via |-> "cli", n |-> n, file |-> file] : n \in {2}, file \in PlanFiles}

BatchInit ==
  /\ MainWin
  /\ job \in Jobs
  /\ run = Started

\* the request moves on to r
Runs(r) == run' = r /\ UNCHANGED <<job, planner>>

DoGenerateChecks ==
  /\ job.via = "tk"
  /\ run.pc = "start"
  /\ Runs(do_generate_checks(run, job))

DoGenerateParts ==
  /\ run.pc = "parts"
  /\ Runs(do_generate_parts(run, job))

MainArgs ==
  /\ job.via = "cli"
  /\ run.pc = "start"
  /\ Runs(main_args(run, job))

LoadPlan ==
  /\ run.pc = "load"
  /\ Runs(loaded(run, job))

GenerateVerilogHead ==
  /\ run.pc = "generate"
  /\ Runs(generate_verilog_head(run))

StageHead ==
  /\ run.pc = "stage"
  /\ Runs(stage_head(run))

AdderRound ==
  /\ run.pc = "adder"
  /\ run.j <= Len(StageAt(run).adders)
  /\ Runs(adder_round(run))

StageTail ==
  /\ run.pc = "adder"
  /\ run.j > Len(StageAt(run).adders)
  /\ Runs(stage_tail(run))

GenerateVerilogTail ==
  /\ run.pc = "finalize"
  /\ Runs(generate_verilog_tail(run))

Emit ==
  /\ run.pc = "emit"
  /\ Runs(emitted(run, job))

DoGenerateTop ==
  /\ run.pc = "top"
  /\ Runs(do_generate_top(run))

BatchNext ==
  \/ DoGenerateChecks
  \/ DoGenerateParts
  \/ MainArgs
  \/ LoadPlan
  \/ GenerateVerilogHead
  \/ StageHead
  \/ AdderRound
  \/ StageTail
  \/ GenerateVerilogTail
  \/ Emit
  \/ DoGenerateTop

BatchSpec == BatchInit /\ [][BatchNext]_vars

\* the planner and the generators side by side: a session of the planner, or
\* one request to a generator
WholeInit == Init \/ BatchInit

WholeNext == (run = NoRun /\ Next) \/ BatchNext

WholeSpec == WholeInit /\ [][WholeNext]_vars

\* ------------------------------------------------- generating twice
\* generate_verilog called once more on the Plan object of a finished
\* generation; first keeps what the first call gave
generate_again(r) ==
  [pc |-> "generate", plan |-> r.plan, cols |-> <<>>, k |-> 0, j |-> 0,
   st |-> Started.st, inst_lines |-> <<>>, warn_lines |-> <<>>,
   opa |-> <<>>, opb |-> <<>>, written |-> r.written, reported |-> r.reported,
   first |-> [cols |-> r.cols, inst_lines |-> r.inst_lines,
              warn_lines |-> r.warn_lines, opa |-> r.opa, opb |-> r.opb]]

Again(r) == "first" \in DOMAIN r

GenerateAgain ==
  /\ run.pc = "done"
  /\ run.plan # <<>>
  /\ ~Again(run)
  /\ Runs(generate_again(run))

TwiceNext == BatchNext \/ GenerateAgain

TwiceSpec == BatchInit /\ [][TwiceNext]_vars

\* ------------------------------------------- resolving explicit inputs
\* The loop "for token in inps" of apply_stage on its own: a placement with
\* an explicit input list meets a board.  Stages of one name write one label
\* twice, so a board may hold a label more than once, in one column or in
\* several.
MaxPile == 3
MaxInputs == 2

Piles(labs) == UNION {[1..m -> labs] : m \in 0..MaxPile}

\* boards of two columns over two labels
TokenBoards ==
  {<<p0, p1>> : p0 \in Piles({PPLabel(0, 1), PPLabel(1, 0)}),
                p1 \in Piles({PPLabel(0, 1), PPLabel(1, 0)})}

\* input lists over the two labels, a label on no board and the constants
TokenLists ==
  UNION {[1..m -> {PPLabel(0, 1), PPLabel(1, 0), PPLabel(1, 1), ZERO, ONE}] :
           m \in 1..MaxInputs}

\* the loop as it starts on board cols for a placement on column col
Resolving(cols, col, inps) ==
  [pc |-> "token", cols0 |-> cols, cols |-> cols, col |-> col, inps |-> inps, i |-> 1,
   warn_lines |-> <<>>]

TokenInit ==
  /\ MainWin
  /\ job = NoJob
  /\ run \in {Resolving(cols, col, inps) :
                cols \in TokenBoards, col \in -1..2, inps \in TokenLists}

\* one round of "for token in inps": ok = _remove_token_once(columns, col,
\* token), and the warning of a token that was not found
resolved(r) ==
  [r EXCEPT !.cols = _remove_token_once(r.cols, r.col, r.inps[r.i]).columns,
            !.warn_lines = IF _remove_token_once(r.cols, r.col, r.inps[r.i]).ok
                             THEN @
                             ELSE Append(@, <<"input not found", r.col, r.inps[r.i]>>),
            !.i = @ + 1,
            !.pc = IF r.i = Len(r.inps) THEN "taken" ELSE "token"]

ResolveToken ==
  /\ run.pc = "token"
  /\ Runs(resolved(run))

TokenNext == ResolveToken

TokenSpec == TokenInit /\ [][TokenNext]_vars

\* ------------------------------------------------------------ the claims
\* _collect_current_nodes, the labels: column by column, in list order
Labels(cols) == [c \in 1..Len(cols) |-> [k \in 1..Len(cols[c]) |-> cols[c][k].label]]

\* generate_verilog_text, the instance lines of one stage: the k-th adder
\* drives bit k - 1 of the stage's SUM and CARRY buses, missing inputs are 1'b0
StageInstances(st) ==
  [k \in 1..Len(st.adders) |->
     [type |-> IF st.adders[k].type = "HA" THEN "HA" ELSE "FA",
      inputs |-> Operands(st.adders[k].inputs, Need(st.adders[k].type)),
      s_bit |-> BusLabel("S", st.name, k - 1),
      c_bit |-> BusLabel("C", st.name, k - 1)]]

generate_verilog_text(s) == [k \in 1..Len(Logs(s)) |-> StageInstances(Logs(s)[k])]

\* the SUM and CARRY labels of the instances apply_stage returns
OutLabels(inst_lines) ==
  [i \in 1..(2 * Len(inst_lines)) |->
     IF i % 2 = 1 THEN inst_lines[(i + 1) \div 2].s_bit ELSE inst_lines[i \div 2].c_bit]

\* C1: for the committed plan, the interactive replay leaves after every
\* stage the board the batch engine leaves (the same labels in the same order
\* in every column), every stage creates the same SUM and CARRY labels in
\* both, and the generated adder instances (type, inputs, sum label, carry
\* label) are the same sequence.
C1_ReplayEqualsBatch ==
  \A k \in 1..Len(stages) :
    /\ Labels(board_states(Now)[k].columns)
         = BatchBoards(build_initial_columns(N), stages)[k].columns
    /\ new_labels(board_states(Now)[k].curr[1])
         = OutLabels(BatchBoards(build_initial_columns(N), stages)[k].inst_lines)
    /\ generate_verilog_text(Now)[k]
         = BatchBoards(build_initial_columns(N), stages)[k].inst_lines

\* the requests C2 is about: new stage, place, undo, redo, commit, reopen
EditOps ==
  {"new_stage", "place", "batch", "undo_adder", "undo_move", "redo_adder", "redo_move",
   "finish_stage", "reopen"}

\* C2: a step of new stage, place, undo, redo, commit or reopening stage k
\* leaves every committed stage that is still in the plan (on a reopen: the
\* stages before k) with exactly its ordered placement list.
C2_CommittedStagesImmutable ==
  [][lastOp' \in EditOps =>
       \A i \in 1..Len(stages') :
         i <= Len(stages) => stages'[i].adders = stages[i].adders]_vars

Top(stack) == stack[Len(stack)]

UndoTopIsAdder ==
  curr # <<>> /\ curr[1].undo_actions # <<>> /\ Top(curr[1].undo_actions).act = "adder"

RedoTopIsAdder ==
  curr # <<>> /\ curr[1].redo_actions # <<>> /\ Top(curr[1].redo_actions).act = "adder"

LabelsIn(pile) == {pile[k].label : k \in 1..Len(pile)}

AllLabels(cols) == UNION {LabelsIn(cols[c]) : c \in 1..Len(cols)}

\* every column of r holds the labels it holds in s
SameColumns(s, r) ==
  /\ Len(r.columns) = Len(s.columns)
  /\ \A c \in 1..Len(s.columns) :
       /\ Len(r.columns[c]) = Len(s.columns[c])
       /\ LabelsIn(r.columns[c]) = LabelsIn(s.columns[c])

\* the board and the log of r are those of s
SameBoard(s, r) ==
  /\ SameColumns(s, r)
  /\ r.curr[1].s_seq = s.curr[1].s_seq
  /\ r.curr[1].c_seq = s.curr[1].c_seq
  /\ r.curr[1].adders = s.curr[1].adders

\* C3: with a placement on top of the undo stack, Undo followed by Redo
\* leaves the board it started from: the same labels in the same columns
\* (the S and C names included), the same s_seq and c_seq, the same
\* placement list.
C3_UndoRedoRoundTrip ==
  UndoTopIsAdder => SameBoard(Now, on_redo(on_undo(Now)))

\* u is s after the undo of the placement act
PlacementUndone(s, u, act) ==
  /\ act.s_label \notin AllLabels(u.columns)
  /\ act.c_label \notin AllLabels(u.columns)
  /\ \A i \in 1..Len(act.removed) :
       \E k \in 1..Len(PileAt(u.columns, act.removed[i].col)) :
         LET b == u.columns[act.removed[i].col + 1][k]
         IN /\ b.label = act.removed[i].label
            /\ b.kind = act.removed[i].kind
            /\ b.row = act.removed[i].row
            /\ b.stage_name = act.removed[i].stage_name
  /\ u.curr[1].adders = SubSeq(s.curr[1].adders, 1, Len(s.curr[1].adders) - 1)
  /\ Len(s.curr[1].adders) > 0
  /\ Top(s.curr[1].adders).type = act.kind
  /\ Top(s.curr[1].adders).col = act.col
  /\ u.curr[1].s_seq = s.curr[1].s_seq - 1
  /\ u.curr[1].c_seq = s.curr[1].c_seq - 1
  /\ \A c \in 1..Len(s.columns) :
       LabelsIn(s.columns[c]) \ {act.s_label, act.c_label} \subseteq LabelsIn(u.columns[c])
  /\ \A c \in 1..Len(u.columns) :
       LabelsIn(u.columns[c]) \ {act.removed[i].label : i \in 1..Len(act.removed)}
         \subseteq LabelsIn(PileAt(s.columns, c - 1))

\* C4: the undo of a placement removes its S and C labels, puts every
\* consumed label back in its column with the kind, row and stage of its
\* snapshot, takes the placement off the list and lowers s_seq and c_seq by
\* one; no other label changes column.
C4_UndoPlacement ==
  UndoTopIsAdder => PlacementUndone(Now, on_undo(Now), Top(curr[1].undo_actions))

\* a placement has just been undone and another one is on top of the undo
\* stack
C4_Witness == lastOp = "undo_adder" /\ UndoTopIsAdder

SnapshotLabels(removed) == [i \in 1..Len(removed) |-> removed[i].label]

RECURSIVE WithoutZero(_)
WithoutZero(inputs) ==
  IF inputs = <<>> THEN <<>>
  ELSE IF Head(inputs) = ZERO THEN WithoutZero(Tail(inputs))
  ELSE <<Head(inputs)>> \o WithoutZero(Tail(inputs))

\* r is s after the redo of the placement act
PlacementRedone(s, r, act) ==
  /\ Len(r.curr[1].adders) = Len(s.curr[1].adders) + 1
  /\ SubSeq(r.curr[1].adders, 1, Len(s.curr[1].adders)) = s.curr[1].adders
  /\ Top(r.curr[1].adders).type = act.kind
  /\ Top(r.curr[1].adders).col = act.col
  /\ Range(WithoutZero(Top(r.curr[1].adders).inputs)) = Range(SnapshotLabels(act.removed))
  /\ act.s_label \in LabelsIn(PileAt(r.columns, act.col))
  /\ act.c_label \in LabelsIn(PileAt(r.columns, act.col + 1))
  /\ r.curr[1].s_seq = s.curr[1].s_seq + 1
  /\ r.curr[1].c_seq = s.curr[1].c_seq + 1

\* C5: the redo of a placement places the same adder again (same type, same
\* column, the same consumed labels) under the recorded S and C names, and
\* s_seq and c_seq are one higher after it.
C5_RedoPlacement ==
  RedoTopIsAdder => PlacementRedone(Now, on_redo(Now), Top(curr[1].redo_actions))

\* a placement has just been redone and another one is on top of the redo
\* stack
C5_Witness == lastOp = "redo_adder" /\ RedoTopIsAdder

RedoEmpty(r) == r.curr[1].redo_actions = <<>>

\* u is s after an undo: the top of the undo stack is now the top of the
\* redo stack, and nothing else in the stacks has moved
MovedToRedo(s, u) ==
  /\ u.curr[1].undo_actions
       = SubSeq(s.curr[1].undo_actions, 1, Len(s.curr[1].undo_actions) - 1)
  /\ u.curr[1].redo_actions = Append(s.curr[1].redo_actions, Top(s.curr[1].undo_actions))

\* r is s after a redo: the top of the redo stack is gone, and the undo stack
\* is one action longer, an action of the same kind on the same labels
MovedToUndo(s, r) ==
  /\ r.curr[1].redo_actions
       = SubSeq(s.curr[1].redo_actions, 1, Len(s.curr[1].redo_actions) - 1)
  /\ Len(r.curr[1].undo_actions) = Len(s.curr[1].undo_actions) + 1
  /\ SubSeq(r.curr[1].undo_actions, 1, Len(s.curr[1].undo_actions)) = s.curr[1].undo_actions
  /\ Top(r.curr[1].undo_actions).act = Top(s.curr[1].redo_actions).act
  /\ Top(s.curr[1].redo_actions).act = "move"
       => Top(r.curr[1].undo_actions) = Top(s.curr[1].redo_actions)
  /\ Top(s.curr[1].redo_actions).act = "adder"
       => /\ Top(r.curr[1].undo_actions).s_label = Top(s.curr[1].redo_actions).s_label
          /\ Top(r.curr[1].undo_actions).c_label = Top(s.curr[1].redo_actions).c_label

\* C6: while a stage is edited, a new action (a placement from a selection,
\* a batch placement, a reposition) leaves the redo stack empty; Undo moves
\* exactly one action from the undo stack to the redo stack, Redo exactly one
\* back.
C6_StackDiscipline ==
  curr # <<>> =>
    /\ \A kind \in {"HA", "FA"}, c \in 1..Len(columns) :
         \A sel \in Selections(columns[c], Need(kind)) :
           RedoEmpty(_place_from_selection(Now, kind, c - 1, sel))
    /\ \A mode \in {"HA", "FA", "smart"}, pad0 \in BOOLEAN, c \in 1..Len(columns) :
         \A sel \in Selections(columns[c], Len(columns[c])) :
           on_batch_apply(Now, mode, pad0, c - 1, sel) # Now
             => RedoEmpty(on_batch_apply(Now, mode, pad0, c - 1, sel))
    /\ \A c \in 1..Len(columns) :
         \A k \in 1..Len(columns[c]), y \in Range(_allowed_y_positions(N)) :
           y # columns[c][k].y => RedoEmpty(mouseReleaseEvent(Now, c, k, y))
    /\ curr[1].undo_actions # <<>> => MovedToRedo(Now, on_undo(Now))
    /\ curr[1].redo_actions # <<>> => MovedToUndo(Now, on_redo(Now))

\* a reposition has just been undone, and both stacks hold an action
C6_Witness ==
  /\ lastOp = "undo_move"
  /\ curr # <<>>
  /\ curr[1].undo_actions # <<>>
  /\ curr[1].redo_actions # <<>>

\* r has the committed stages of s, each with its placements and counters
CommittedUntouched(s, r) ==
  /\ Len(r.stages) = Len(s.stages)
  /\ \A i \in 1..Len(s.stages) :
       /\ r.stages[i].adders = s.stages[i].adders
       /\ r.stages[i].s_seq = s.stages[i].s_seq
       /\ r.stages[i].c_seq = s.stages[i].c_seq

\* C7: with no stage being edited, Undo and Redo change nothing (board,
\* plan, counters, stacks); while a stage is edited they leave the placement
\* list and the counters of every committed stage as they are.
C7_UndoRedoScope ==
  /\ curr = <<>> => on_undo(Now) = Now /\ on_redo(Now) = Now
  /\ curr # <<>> => CommittedUntouched(Now, on_undo(Now))
                      /\ CommittedUntouched(Now, on_redo(Now))

\* a placement has just been undone while a committed stage holds placements
C7_Witness ==
  /\ lastOp = "undo_adder"
  /\ curr # <<>>
  /\ stages # <<>>
  /\ stages[1].adders # <<>>

StacksEmpty(log) == log.undo_actions = <<>> /\ log.redo_actions = <<>>

\* r holds no log of that name with an action on a stack
NoStacksLeft(r, name) ==
  \A i \in 1..Len(Logs(r)) : Logs(r)[i].name = name => StacksEmpty(Logs(r)[i])

\* C8: right after the stage being edited is committed, or discarded, its
\* undo stack and its redo stack are empty.
C8_StacksEmptyAfterCommit ==
  curr # <<>> =>
    /\ NoStacksLeft(on_finish_stage(Now), curr[1].name)
    /\ NoStacksLeft(on_delete_stage_and_followers(Now, curr[1].name), curr[1].name)

\* r is s but for the line of the bubble act.label, which is line y
OnlyMoved(s, r, act, y) ==
  /\ SameColumns(s, r)
  /\ r.stages = s.stages
  /\ r.curr[1].adders = s.curr[1].adders
  /\ r.curr[1].s_seq = s.curr[1].s_seq
  /\ r.curr[1].c_seq = s.curr[1].c_seq
  /\ \A c \in 1..Len(s.columns) : \A k \in 1..Len(s.columns[c]) :
       IF s.columns[c][k].label = act.label
         THEN r.columns[c][k].label = act.label /\ r.columns[c][k].y = Min(y, 0)
         ELSE r.columns[c][k] = s.columns[c][k]

\* C9: the undo and the redo of a reposition give the label its old, or its
\* new, vertical position and nothing else: every label stays in its column,
\* the placement list, s_seq and c_seq are unchanged.
C9_RepositionUndoRedo ==
  curr # <<>> =>
    /\ (curr[1].undo_actions # <<>> /\ Top(curr[1].undo_actions).act = "move")
         => OnlyMoved(Now, on_undo(Now), Top(curr[1].undo_actions),
                      Top(curr[1].undo_actions).old_y)
    /\ (curr[1].redo_actions # <<>> /\ Top(curr[1].redo_actions).act = "move")
         => OnlyMoved(Now, on_redo(Now), Top(curr[1].redo_actions),
                      Top(curr[1].redo_actions).new_y)

\* a reposition has just been undone in a stage that holds a placement
C9_Witness ==
  /\ lastOp = "undo_move"
  /\ curr # <<>>
  /\ curr[1].adders # <<>>
  /\ curr[1].redo_actions # <<>>
  /\ Top(curr[1].redo_actions).act = "move"

\* r is s with the stage being edited committed
Committed(s, r) ==
  /\ r.curr = <<>>
  /\ Len(r.stages) = Len(s.stages) + 1
  /\ \A i \in 1..Len(s.stages) :
       r.stages[i].name = s.stages[i].name /\ r.stages[i].adders = s.stages[i].adders
  /\ Top(r.stages).name = s.curr[1].name
  /\ Top(r.stages).adders = s.curr[1].adders

\* r is s with a new, empty stage being edited
Opened(s, r) ==
  /\ Len(r.curr) = 1
  /\ r.curr[1].adders = <<>>
  /\ r.stages = s.stages
  /\ r.columns = s.columns

\* C10: the session is Idle or Editing one stage.  A new stage starts from
\* Idle only: the request is rejected while Editing and changes nothing.
\* Commit appends the stage being edited, with its placements, as the last
\* stage of the plan and returns to Idle; in Idle it changes nothing.
C10_StageLifecycle ==
  /\ Len(curr) <= 1
  /\ curr # <<>> => on_new_stage(Now) = Now
  /\ curr = <<>> => Opened(Now, on_new_stage(Now))
  /\ curr # <<>> => Committed(Now, on_finish_stage(Now))
  /\ curr = <<>> => on_finish_stage(Now) = Now

\* a second stage, with a placement, has just been committed
C10_Witness ==
  /\ lastOp = "finish_stage"
  /\ curr = <<>>
  /\ Len(stages) = 2
  /\ Top(stages).adders # <<>>

\* reopening stage i needs the caller's confirmation: a stage is committed
\* after it, or another stage is being edited
NeedsConfirmation(i) ==
  /\ i \in 1..Len(stages)
  /\ curr # <<>> => curr[1].name # stages[i].name
  /\ i # Len(stages) \/ curr # <<>>

\* C11: the reopening of committed stage k while a stage is committed after
\* it, or while another stage is being edited, goes on only when the caller
\* confirms: when the caller declines, the committed plan, the stage being
\* edited, the board, the counters and the undo and redo stacks are unchanged.
C11_ReopenDeclinedChangesNothing ==
  \A i \in 1..Len(stages) :
    NeedsConfirmation(i)
      => on_stage_double_clicked(Now, stages[i].name, FALSE) = [s |-> Now, hung |-> FALSE]

\* a stage is committed, with placements, and a second one, with an action
\* on its undo stack, is being edited
C11_Witness ==
  /\ Len(stages) = 1
  /\ stages[1].adders # <<>>
  /\ curr # <<>>
  /\ curr[1].undo_actions # <<>>
  /\ NeedsConfirmation(1)

\* the placements of the logs, log by log
Plan(logs) == [i \in 1..Len(logs) |-> [name |-> logs[i].name, adders |-> logs[i].adders]]

\* r is s after stage i was reopened: the stages before i are the plan, stage
\* i is being edited with its placements, and the board is the one the
\* replay of stages 1..i from the seeded board gives
ReopenedAt(s, i, r) ==
  /\ Plan(r.stages) = Plan(SubSeq(s.stages, 1, i - 1))
  /\ Len(r.curr) = 1
  /\ Plan(r.curr) = Plan(<<s.stages[i]>>)
  /\ SameColumns(_recompute_history_from_scratch(
                   [s EXCEPT !.stages = SubSeq(s.stages, 1, i), !.curr = <<>>]),
                 r)

\* what on_stage_double_clicked comes to, when it returns, is stage i reopened
ReopenReturns(s, i, r) == ~r.hung => ReopenedAt(s, i, r.s)

\* C12: after a confirmed reopen of committed stage k the committed plan is
\* the former stages before k, in their order and with their placements,
\* stage k is being edited with the placements it had when committed, and the
\* board is the seeded board with the stages up to k applied in order.
C12_ReopenRestoresStage ==
  curr = <<>> =>
    \A i \in 1..Len(stages) :
      ReopenReturns(Now, i, on_stage_double_clicked(Now, stages[i].name, TRUE))

\* the board the committed stages of s give: the last snapshot of the
\* replay, the seeded board when no stage is committed
CommittedBoard(s) ==
  IF s.stages = <<>> THEN RecomputeStart(s).columns
  ELSE board_states(s)[Len(s.stages)].columns

\* r is s with the stage being edited dropped
Discarded(s, r) ==
  /\ r.curr = <<>>
  /\ r.stages = s.stages
  /\ Labels(r.columns) = Labels(CommittedBoard(s))
  /\ \A c \in 1..Len(r.columns) : \A k \in 1..Len(r.columns[c]) :
       r.columns[c][k].stage_name # s.curr[1].name
  /\ \A k \in 1..Len(s.curr[1].adders) :
       \A j \in 1..Len(s.curr[1].adders[k].inputs) :
         LET l == s.curr[1].adders[k].inputs[j]
         IN (l # ZERO /\ ~(l.bus \in {"S", "C"} /\ l.n = s.curr[1].name))
              => l \in LabelsIn(PileAt(r.columns, s.curr[1].adders[k].col))

\* C13: discarding the stage being edited, whatever was placed, undone,
\* redone and repositioned in it, returns to Idle with the committed plan
\* unchanged and the board the committed stages alone give: no label the
\* discarded stage created remains, every label it consumed is back in its
\* column.
C13_DiscardRestoresCommittedBoard ==
  curr # <<>> => Discarded(Now, on_delete_stage_and_followers(Now, curr[1].name))

\* the stage being edited, opened over a committed stage with placements,
\* holds a placement and has seen an undo
C13_Witness ==
  /\ curr # <<>>
  /\ curr[1].adders # <<>>
  /\ curr[1].redo_actions # <<>>
  /\ stages # <<>>
  /\ stages[1].adders # <<>>

\* one entry per committed stage, in plan order, each starting from the
\* board the entry before it ends with, the first from the seeded board
HistoryChained(s) ==
  /\ Len(s.history) = Len(s.stages)
  /\ \A k \in 1..Len(s.history) :
       /\ s.history[k].stage_name = s.stages[k].name
       /\ s.history[k].prev_nodes
            = IF k = 1 THEN build_initial_columns(N) ELSE s.history[k - 1].curr_nodes

\* the after-board of every entry is the board the engine leaves after the
\* committed stages up to that entry, applied to the seeded board
HistoryApplied(s) ==
  \A k \in 1..Min(Len(s.history), Len(s.stages)) :
    s.history[k].curr_nodes
      = BatchBoards(build_initial_columns(N), s.stages)[k].columns

\* C14: the audit trail has exactly one entry per committed stage, in plan
\* order; the before-board of the first entry is the seeded board, the
\* before-board of each later entry is the after-board of the entry before
\* it, and the after-board of entry k is the result of applying the
\* committed stages 0..k to the seeded board.
C14_AuditTrail == HistoryChained(Now) /\ HistoryApplied(Now)

\* r holds the plan of s: the same stages in the same order, each with the
\* same placements (type, column, inputs)
SamePlan(s, r) == Plan(r.stages \o r.curr) = Plan(s.stages \o s.curr)

\* r is in the session state of s: the same stages are committed, the same
\* stage, if any, is being edited
SameSession(s, r) ==
  /\ Plan(r.stages) = Plan(s.stages)
  /\ Plan(r.curr) = Plan(s.curr)

\* the boards of s and r hold the same labels in every column (a column
\* past the end of a board holds none)
SameLabels(s, r) ==
  \A c \in 0..(Max(Len(s.columns), Len(r.columns)) - 1) :
    /\ LabelsIn(PileAt(r.columns, c)) = LabelsIn(PileAt(s.columns, c))
    /\ Len(PileAt(r.columns, c)) = Len(PileAt(s.columns, c))

\* r is what s comes back as
Reloaded(s, r) ==
  /\ SamePlan(s, r)
  /\ SameLabels(s, r)
  /\ SameSession(s, r)

\* C15: saving the whole plan and loading the file again gives the state
\* saved: the same N, the same ordered stage list with the same placements,
\* the same board, the same committed stages and the same stage being edited.
C15_SaveReloadRoundTrip ==
  /\ on_export_json(Now).N = N
  /\ Reloaded(Now, on_load_json(Now, on_export_json(Now)))

\* the loader's hard failures: the plan file is missing or unreadable, is
\* not structured data, names no N, or names an N that is not the width
\* asked for
HardFailure(jb) ==
  \/ jb.file.kind \in {"missing", "unreadable", "garbage"}
  \/ /\ jb.file.kind = "json"
     /\ jb.file.N = <<>> \/ jb.file.N[1] # jb.n

\* the request has generated and written nothing
NothingGenerated(r) ==
  /\ r.pc \in {"start", "load", "aborted", "failed"}
  /\ r.written = {}
  /\ r.opa = <<>>
  /\ r.inst_lines = <<>>
  /\ r.pc \in {"aborted", "failed"} => r.reported # <<>>

\* C16: a request whose plan file is missing or unreadable, is not valid
\* structured data, has no field N, or has an N other than the width asked
\* for is aborted and reported before any generation runs: no module text
\* is generated or written for it.
C16_LoaderFailuresAbort == HardFailure(job) => NothingGenerated(run)

\* the tokens on a board of labels
Tokens(cols) == UNION {Range(cols[c]) : c \in 1..Len(cols)}

WarnKinds(warn_lines) == {warn_lines[i][1] : i \in 1..Len(warn_lines)}

\* the round for adder ad on board cols recorded its anomalies in the
\* warnings w it leaves: a negative target column, a target column out of
\* range with nothing to take from it, an explicit input that is on no column
AnomaliesWarned(cols, ad, w) ==
  /\ (ad.type \in {"HA", "FA"} /\ ad.col < 0) => "S dropped" \in WarnKinds(w)
  /\ (ad.inputs = <<>> /\ (ad.col < 0 \/ ad.col >= Len(cols)))
       => <<"column out of range", ad.col, ZERO>> \in Range(w)
  /\ \A i \in 1..Len(ad.inputs) :
       (ad.inputs[i] \notin {ZERO, ONE} /\ ad.inputs[i] \notin Tokens(cols))
         => <<"input not found", ad.col, ad.inputs[i]>> \in Range(w)

\* the round of the adder r stands at goes through: its anomalies are
\* warned of, its instance is emitted, the loop moves to the next adder
RoundGoesOn(r, r2) ==
  /\ AnomaliesWarned(r.cols, AdderAt(r), r2.st.warn_lines)
  /\ \A i \in 1..Len(r.st.warn_lines) : r2.st.warn_lines[i] = r.st.warn_lines[i]
  /\ r2.pc = "adder"
  /\ r2.j = r.j + 1
  /\ AdderAt(r).type \in {"HA", "FA"}
       => Len(r2.st.inst_lines) = Len(r.st.inst_lines) + 1

\* the loop over the stages takes up stage k, or has passed the last stage
StageGoesOn(r, r2) ==
  /\ r.k <= Len(r.plan[1].stages) => (r2.pc = "adder" /\ r2.k = r.k /\ r2.j = 1)
  /\ r.k > Len(r.plan[1].stages) => r2.pc = "finalize"
  /\ r2.cols = r.cols

\* a stage whose placements are all applied hands over its instances and
\* warnings, the loop moves to the next stage
StageEnds(r, r2) ==
  /\ r2.pc = "stage"
  /\ r2.k = r.k + 1
  /\ r2.inst_lines = Append(r.inst_lines, r.st.inst_lines)
  /\ r2.warn_lines = r.warn_lines \o r.st.warn_lines

\* every column below W with more than two labels left has its warning
SurvivorsWarned(r, r2) ==
  /\ Len(r2.opa) = 2 * r.plan[1].N
  /\ Len(r2.opb) = 2 * r.plan[1].N
  /\ \A i \in 1..Len(r.warn_lines) : r2.warn_lines[i] = r.warn_lines[i]
  /\ \A col \in 0..(2 * r.plan[1].N - 1) :
       Len(PileAt(r.cols, col)) > 2
         => <<"more than two left", col, ZERO>> \in Range(r2.warn_lines)

Instances(adders) ==
  Cardinality({i \in 1..Len(adders) : adders[i].type \in {"HA", "FA"}})

\* the text is complete: one list of instances per stage, one instance per
\* HA or FA placement, both vectors of W bits
Completed(r) ==
  /\ Len(r.opa) = 2 * r.plan[1].N
  /\ Len(r.opb) = 2 * r.plan[1].N
  /\ Len(r.inst_lines) = Len(r.plan[1].stages)
  /\ \A k \in 1..Len(r.inst_lines) :
       Len(r.inst_lines[k]) = Instances(r.plan[1].stages[k].adders)

RECURSIVE CountTokens(_)
CountTokens(cols) == IF cols = <<>> THEN 0 ELSE Len(Head(cols)) + CountTokens(Tail(cols))

\* what taking the inputs of adder ad removes from the board cols, t the
\* inputs as taken
RemovedBy(cols, t) == CountTokens(cols) - CountTokens(t.columns)

\* the round at an HA or FA placement
AtPlacement(r) ==
  /\ r.pc = "adder"
  /\ r.j <= Len(StageAt(r).adders)
  /\ AdderAt(r).type \in {"HA", "FA"}

\* C18: applying one HA placement removes exactly 2 labels from the board,
\* one FA placement exactly 3, whatever its inputs (explicit or implicit)
\* and whatever the columns hold.
C18_PlacementRemovesNeed ==
  AtPlacement(run)
    => RemovedBy(run.cols,
                 TakeInputs([columns |-> run.cols, warn_lines |-> <<>>], AdderAt(run)))
         = Need(AdderAt(run).type)

\* the columns after hold, past what the columns before held, lab at the end
\* of column col and nothing else there
AppendedTo(before, after, col, lab) ==
  /\ col >= 0
  /\ lab \notin Tokens(before)
  /\ PileAt(after, col) = Append(PileAt(before, col), lab)

\* column c holds after what it held before
Untouched(before, after, c) == PileAt(after, c) = PileAt(before, c)

AllColumns(before, after) == 0..(Max(Len(before), Len(after)) - 1)

\* the round wrote its SUM label to the end of column col, its CARRY label
\* to the end of column col + 1, and no other label
WroteSumAndCarry(before, after, col, line) ==
  /\ AppendedTo(before, after, col, line.s_bit)
  /\ AppendedTo(before, after, col + 1, line.c_bit)
  /\ \A c \in AllColumns(before, after) \ {col, col + 1} : Untouched(before, after, c)

\* the round on a negative column: the SUM label is on no column, the CARRY
\* label is at the end of column col + 1 if there is such a column
WroteCarryOnly(before, after, col, line) ==
  /\ line.s_bit \notin Tokens(after)
  /\ IF col + 1 >= 0 THEN AppendedTo(before, after, col + 1, line.c_bit)
     ELSE line.c_bit \notin Tokens(after)
  /\ \A c \in AllColumns(before, after) \ {col + 1} : Untouched(before, after, c)

\* the board once the inputs of the placement r stands at are taken
Taken(r) == TakeInputs([columns |-> r.cols, warn_lines |-> <<>>], AdderAt(r)).columns

\* the instance line of the placement r stands at
LineOf(r) == Applied(r).inst_lines[Len(Applied(r).inst_lines)]

RECURSIVE StageRemovals(_, _, _)
StageRemovals(b, name, adders) ==
  IF adders = <<>> THEN <<>>
  ELSE <<Tokens(b.columns)
           \ Tokens(TakeInputs([columns |-> b.columns, warn_lines |-> <<>>],
                               Head(adders)).columns)>>
       \o StageRemovals(Instantiate(b, name, Head(adders),
                                    TakeInputs([columns |-> b.columns,
                                                warn_lines |-> b.warn_lines],
                                               Head(adders))),
                        name, Tail(adders))

\* the same over the stages of a plan, from the board cols
RECURSIVE PlanRemovals(_, _)
PlanRemovals(cols, plan_stages) ==
  IF plan_stages = <<>> THEN <<>>
  ELSE StageRemovals([columns |-> cols, warn_lines |-> <<>>, inst_lines |-> <<>>,
                      s_seq |-> 0, c_seq |-> 0],
                     Head(plan_stages).name, Head(plan_stages).adders)
       \o PlanRemovals(apply_stage(cols, Head(plan_stages)).columns, Tail(plan_stages))

\* the rounds of the plan of r that take label l off the board
Removals(r, l) ==
  Cardinality({i \in 1..Len(PlanRemovals(build_initial_columns(r.plan[1].N),
                                         r.plan[1].stages)) :
                 l \in PlanRemovals(build_initial_columns(r.plan[1].N),
                                    r.plan[1].stages)[i]})

\* the adder inputs of the generated text wired to label l
Wirings(r, l) ==
  Cardinality({<<k, i, p>> \in (1..Len(r.inst_lines)) \X (1..MaxPlanAdders) \X (1..3) :
                 /\ i <= Len(r.inst_lines[k])
                 /\ p <= Len(r.inst_lines[k][i].inputs)
                 /\ r.inst_lines[k][i].inputs[p] = l})

\* the warnings of the generated text that label l was on no column
NotFound(r, l) ==
  Cardinality({i \in 1..Len(r.warn_lines) :
                 r.warn_lines[i][1] = "input not found" /\ r.warn_lines[i][3] = l})

\* the labels of a finished generation: those of the seeded board, of the
\* stages' buses and of the explicit inputs
ExplicitInputs(st) == UNION {Range(st.adders[i].inputs) : i \in 1..Len(st.adders)}

BusLabels(lines) == UNION {{lines[i].s_bit, lines[i].c_bit} : i \in 1..Len(lines)}

LabelsOf(r) ==
  Tokens(build_initial_columns(r.plan[1].N))
    \cup Tokens(r.cols)
    \cup UNION {ExplicitInputs(r.plan[1].stages[k]) : k \in 1..Len(r.plan[1].stages)}
    \cup UNION {BusLabels(r.inst_lines[k]) : k \in 1..Len(r.inst_lines)}

Generated(r) == r.pc \in {"emit", "top", "done"} /\ r.plan # <<>>

Distinct(seq) == \A a, b \in 1..Len(seq) : a # b => seq[a] # seq[b]

\* the SUM and the CARRY labels of the instance lines of one stage
SumLabels(lines) == [i \in 1..Len(lines) |-> lines[i].s_bit]

CarryLabels(lines) == [i \in 1..Len(lines) |-> lines[i].c_bit]

\* the placements the stage being edited holds on its undo stack
AdderActions(st) == SelectSeq(st.undo_actions, LAMBDA act : act.act = "adder")

\* the bubbles of stage name and of one kind on the board, column by column
RECURSIVE BubblesOf(_, _, _)
BubblesOf(cols, name, kind) ==
  IF cols = <<>> THEN <<>>
  ELSE SelectSeq(Head(cols), LAMBDA b : b.stage_name = name /\ b.kind = kind)
       \o BubblesOf(Tail(cols), name, kind)

BubbleLabels(bubbles) == [i \in 1..Len(bubbles) |-> bubbles[i].label]

\* the stage being edited: the labels its placements received are distinct,
\* on its undo stack and on the board, and the labels the next placement
\* would receive are on neither
EditingLabelsUnique(s) ==
  s.curr # <<>> =>
    /\ Distinct(SumLabels([i \in 1..Len(AdderActions(s.curr[1])) |->
                             [s_bit |-> AdderActions(s.curr[1])[i].s_label]]))
    /\ Distinct(CarryLabels([i \in 1..Len(AdderActions(s.curr[1])) |->
                               [c_bit |-> AdderActions(s.curr[1])[i].c_label]]))
    /\ Distinct(BubbleLabels(BubblesOf(s.columns, s.curr[1].name, "S")))
    /\ Distinct(BubbleLabels(BubblesOf(s.columns, s.curr[1].name, "C")))
    /\ \A i \in 1..Len(AdderActions(s.curr[1])) :
         /\ AdderActions(s.curr[1])[i].s_label
              # BusLabel("S", s.curr[1].name, s.curr[1].s_seq)
         /\ AdderActions(s.curr[1])[i].c_label
              # BusLabel("C", s.curr[1].name, s.curr[1].c_seq)
    /\ BusLabel("S", s.curr[1].name, s.curr[1].s_seq)
         \notin Range(BubbleLabels(BubblesOf(s.columns, s.curr[1].name, "S")))
    /\ BusLabel("C", s.curr[1].name, s.curr[1].c_seq)
         \notin Range(BubbleLabels(BubblesOf(s.columns, s.curr[1].name, "C")))

\* a request to a generator: the instance lines of the stage in hand, and of
\* every stage done, have distinct SUM labels and distinct CARRY labels
BatchLabelsUnique(r) ==
  r.pc \notin {"idle"} =>
    /\ Distinct(SumLabels(r.st.inst_lines))
    /\ Distinct(CarryLabels(r.st.inst_lines))
    /\ \A k \in 1..Len(r.inst_lines) :
         Distinct(SumLabels(r.inst_lines[k])) /\ Distinct(CarryLabels(r.inst_lines[k]))

\* C21: no two placements of one stage receive the same SUM label or the
\* same CARRY label, in batch execution and in the stage being edited after
\* any sequence of place, undo and redo actions.
C21_BusLabelsUnique == EditingLabelsUnique(Now) /\ BatchLabelsUnique(run)

\* the stage being edited holds two placements, the second one redone after
\* an undo
C21_Witness ==
  /\ lastOp = "redo_adder"
  /\ curr # <<>>
  /\ Len(AdderActions(curr[1])) = 2
  /\ curr[1].s_seq = 2

\* the round at any placement of a stage
AtRound(r) == r.pc = "adder" /\ r.j <= Len(StageAt(r).adders)

\* the round of placement k (0-based) of a stage: it takes the counters from
\* k to k + 1 whatever its type, and an HA or FA placement adds to the lines
\* of the stage one instance of its type on sum_bus[k] and carry_bus[k]
RoundNumbered(r, ad, name, k, b) ==
  /\ r.st.s_seq = k /\ r.st.c_seq = k
  /\ b.s_seq = k + 1 /\ b.c_seq = k + 1
  /\ IF ad.type \in {"HA", "FA"}
       THEN /\ b.inst_lines = Append(r.st.inst_lines, b.inst_lines[Len(b.inst_lines)])
            /\ b.inst_lines[Len(b.inst_lines)].type = ad.type
            /\ b.inst_lines[Len(b.inst_lines)].s_bit = BusLabel("S", name, k)
            /\ b.inst_lines[Len(b.inst_lines)].c_bit = BusLabel("C", name, k)
       ELSE b.inst_lines = r.st.inst_lines

\* C22: apply_stage processes the placements in declared order and gives the
\* k-th placement (0-based) the labels sum_bus[k] and carry_bus[k], one
\* increment of each sequence counter per placement whatever its type; the
\* sum-bus and carry-bus widths it returns both equal the number of
\* placements of the stage.
C22_SequenceCounters ==
  /\ AtRound(run) => RoundNumbered(run, AdderAt(run), StageAt(run).name, run.j - 1,
                                   Applied(run))
  /\ (run.pc = "adder" /\ run.j > Len(StageAt(run).adders))
       => /\ run.st.s_seq = Len(StageAt(run).adders)
          /\ run.st.c_seq = Len(StageAt(run).adders)
  /\ (run.pc = "adder" /\ run.j = 1)
       => /\ apply_stage(run.cols, StageAt(run)).s_seq = Len(StageAt(run).adders)
          /\ apply_stage(run.cols, StageAt(run)).c_seq = Len(StageAt(run).adders)

\* a stage of a placement of unknown type and an HA or FA placement after it
\* has been applied: its one instance is on sum_bus[1] and carry_bus[1]
C22_Witness ==
  /\ run.pc = "adder"
  /\ run.j = 3
  /\ StageAt(run).adders[1].type = "XA"
  /\ StageAt(run).adders[2].type \in {"HA", "FA"}
  /\ Len(run.st.inst_lines) = 1
  /\ run.st.inst_lines[1].s_bit = BusLabel("S", StageAt(run).name, 1)
  /\ run.st.s_seq = 2

\* the round at an HA or FA placement with no explicit inputs whose target
\* column is a column of the board
AtAutoInRange(r) ==
  /\ AtPlacement(r)
  /\ AdderAt(r).inputs = <<>>
  /\ 0 <= AdderAt(r).col /\ AdderAt(r).col < Len(r.cols)

\* the last m labels of a pile, the last one first
RECURSIVE LastFirst(_, _)
LastFirst(pile, m) ==
  IF m = 0 THEN <<>>
  ELSE <<pile[Len(pile)]>> \o LastFirst(SubSeq(pile, 1, Len(pile) - 1), m - 1)

Zeros(m) == [k \in 1..m |-> ZERO]

\* the first m entries of a sequence, the last one first
RECURSIVE LastFirstReversed(_, _)
LastFirstReversed(seq, m) ==
  IF m = 0 THEN <<>> ELSE LastFirstReversed(Tail(seq), m - 1) \o <<Head(seq)>>

\* taking the inputs t of a placement of need inputs off column col of cols:
\* the last min(need, length) labels leave the column, the last one first,
\* ZERO fills the slots left, no other column changes, nothing is warned
AutoTaken(cols, col, need, t) ==
  /\ t.inps = LastFirst(cols[col + 1], Min(need, Len(cols[col + 1])))
                \o Zeros(need - Min(need, Len(cols[col + 1])))
  /\ t.columns[col + 1] \o LastFirstReversed(t.inps, Min(need, Len(cols[col + 1])))
       = cols[col + 1]
  /\ Len(t.columns) = Len(cols)
  /\ \A c \in 1..Len(cols) : c # col + 1 => t.columns[c] = cols[c]
  /\ t.warn_lines = <<>>

\* C23: a placement without an explicit input list whose target column is in
\* range removes min(need, column length) labels from the end of that
\* column, most recently appended first, wires them to the adder inputs in
\* pop order (need = 2 for HA, 3 for FA) and fills each missing slot with
\* ZERO without any warning; no other column loses a label.
C23_AutoInputs ==
  AtAutoInRange(run)
    => /\ AutoTaken(run.cols, AdderAt(run).col, Need(AdderAt(run).type),
                    TakeInputs([columns |-> run.cols, warn_lines |-> <<>>], AdderAt(run)))
       /\ LineOf(run).inputs
            = TakeInputs([columns |-> run.cols, warn_lines |-> <<>>], AdderAt(run)).inps
       /\ Applied(run).warn_lines = run.st.warn_lines

\* an FA placement on a column that holds two labels: two are popped, the
\* third input is ZERO
C23_Witness ==
  /\ AtAutoInRange(run)
  /\ AdderAt(run).type = "FA"
  /\ Len(run.cols[AdderAt(run).col + 1]) = 2
  /\ run.cols[AdderAt(run).col + 1][1] # run.cols[AdderAt(run).col + 1][2]

\* the round at an HA or FA placement with no explicit inputs whose target
\* column is not a column of the board
AtAutoOutOfRange(r) ==
  /\ AtPlacement(r)
  /\ AdderAt(r).inputs = <<>>
  /\ (AdderAt(r).col < 0 \/ AdderAt(r).col >= Len(r.cols))

\* the warnings a round adds to those of the stage so far
AddedWarnings(r) ==
  SubSeq(Applied(r).warn_lines, Len(r.st.warn_lines) + 1, Len(Applied(r).warn_lines))

\* the placement is treated as exhausted: need inputs ZERO, on the instance
\* line too, and the board as it was once the inputs are taken
Exhausted(r, t) ==
  /\ t.inps = Zeros(Need(AdderAt(r).type))
  /\ LineOf(r).inputs = Zeros(Need(AdderAt(r).type))
  /\ t.columns = r.cols

\* an implicit-input placement on a column out of range has all its inputs
\* ZERO, removes no label and emits exactly one warning
C24_OutOfRangeOneWarning ==
  AtAutoOutOfRange(run)
    => /\ Exhausted(run, TakeInputs([columns |-> run.cols, warn_lines |-> <<>>],
                                    AdderAt(run)))
       /\ Len(AddedWarnings(run)) = 1

\* C24: an implicit-input placement whose target column is outside the
\* allocated column range is treated as fully exhausted: all its inputs are
\* ZERO, no label is removed from any column and exactly one out-of-range
\* warning is emitted for it, the first warning of the round; past the end of
\* the board it is the only one, on a negative column the warnings of the
\* dropped write-backs follow it.
C24_OutOfRangeExhausted ==
  AtAutoOutOfRange(run)
    => /\ Exhausted(run, TakeInputs([columns |-> run.cols, warn_lines |-> <<>>],
                                    AdderAt(run)))
       /\ AddedWarnings(run)[1] = <<"column out of range", AdderAt(run).col, ZERO>>
       /\ \A i \in 2..Len(AddedWarnings(run)) :
            AddedWarnings(run)[i][1] \in {"S dropped", "C dropped"}
       /\ AdderAt(run).col >= 0 => Len(AddedWarnings(run)) = 1
       /\ AdderAt(run).col < 0 => Len(AddedWarnings(run)) > 1

\* the round at an implicit-input placement on a negative column, after a
\* placement past the end of the board left its one warning
C24_Witness ==
  /\ AtAutoOutOfRange(run)
  /\ run.j = 2
  /\ AdderAt(run).col < 0
  /\ StageAt(run).adders[1].inputs = <<>>
  /\ StageAt(run).adders[1].col = 3
  /\ Len(run.st.warn_lines) = 1

\* the columns that hold a token
Holders(cols, token) == {c \in 1..Len(cols) : token \in Range(cols[c])}

\* the column a token is taken from: the preferred one if it holds the
\* token, else the first that does
Target(cols, col, token) ==
  IF col + 1 \in Holders(cols, token) THEN col + 1
  ELSE CHOOSE c \in Holders(cols, token) : \A d \in Holders(cols, token) : c <= d

\* the first place of a token in a pile
FirstAt(pile, token) ==
  CHOOSE k \in 1..Len(pile) : pile[k] = token /\ \A m \in 1..(k - 1) : pile[m] # token

Without(pile, k) == SubSeq(pile, 1, k - 1) \o SubSeq(pile, k + 1, Len(pile))

\* res is what resolving one token on board cols has to give
TokenResolved(cols, col, token, res) ==
  IF token \in {ZERO, ONE} THEN res = [columns |-> cols, ok |-> TRUE]
  ELSE IF Holders(cols, token) = {} THEN res = [columns |-> cols, ok |-> FALSE]
  ELSE /\ res.ok
       /\ res.columns = [cols EXCEPT ![Target(cols, col, token)] =
                           Without(@, FirstAt(@, token))]
       /\ CountTokens(res.columns) = CountTokens(cols) - 1

\* C25: each token of an explicit input list is resolved in turn: a constant
\* is accepted and nothing is removed; any other label has its first
\* occurrence in the preferred column removed, and only if the preferred
\* column does not hold it the columns are searched in index order and the
\* first occurrence found is removed; exactly one occurrence is removed per
\* resolved token.
C25_ExplicitInputs ==
  /\ run.pc = "token"
       => TokenResolved(run.cols, run.col, run.inps[run.i],
                        _remove_token_once(run.cols, run.col, run.inps[run.i]))
  /\ run.pc = "taken"
       => RemoveTokens([columns |-> run.cols0, warn_lines |-> <<>>], run.col, run.inps)
            = [columns |-> run.cols, warn_lines |-> run.warn_lines]

\* a list of a label and a constant resolved: the label was in the preferred
\* column twice and in the column before it, and left its first place in the
\* preferred column
C25_Witness ==
  /\ run.pc = "taken"
  /\ run.col = 1
  /\ run.inps = <<PPLabel(1, 0), ZERO>>
  /\ run.cols0[1] = <<PPLabel(1, 0)>>
  /\ run.cols0[2] = <<PPLabel(0, 1), PPLabel(1, 0), PPLabel(1, 0)>>
  /\ run.cols[1] = <<PPLabel(1, 0)>>
  /\ run.cols[2] = <<PPLabel(0, 1), PPLabel(1, 0)>>

\* the round at an HA or FA placement with an explicit input list
AtExplicit(r) == AtPlacement(r) /\ AdderAt(r).inputs # <<>>

\* the board token i of the list meets: the tokens before it are resolved
BoardAt(r, i) ==
  RemoveTokens([columns |-> r.cols, warn_lines |-> <<>>], AdderAt(r).col,
               SubSeq(AdderAt(r).inputs, 1, i - 1)).columns

\* token i of the list is a label that is on no column when its turn comes
Unresolved(r, i) ==
  /\ AdderAt(r).inputs[i] \notin {ZERO, ONE}
  /\ Holders(BoardAt(r, i), AdderAt(r).inputs[i]) = {}

\* the warnings of the round that token tok was not found
NotFoundWarnings(r, tok) ==
  {w \in 1..Len(AddedWarnings(r)) :
     AddedWarnings(r)[w] = <<"input not found", AdderAt(r).col, tok>>}

\* the unresolved tokens of the list that name tok
UnresolvedNaming(r, tok) ==
  {i \in 1..Len(AdderAt(r).inputs) : Unresolved(r, i) /\ AdderAt(r).inputs[i] = tok}

\* the unresolved token i leaves every column as it was and has its warning
WarnedAndLeft(r, i) ==
  /\ _remove_token_once(BoardAt(r, i), AdderAt(r).col, AdderAt(r).inputs[i]).columns
       = BoardAt(r, i)
  /\ Cardinality(NotFoundWarnings(r, AdderAt(r).inputs[i]))
       = Cardinality(UnresolvedNaming(r, AdderAt(r).inputs[i]))

\* the instance of the round is wired to token i of the list
WiredTo(r, i) ==
  /\ Len(Applied(r).inst_lines) = Len(r.st.inst_lines) + 1
  /\ i <= Len(LineOf(r).inputs)
  /\ LineOf(r).inputs[i] = AdderAt(r).inputs[i]

\* the round wrote its SUM label to its column and its CARRY label to the next
SumAndCarryWritten(r) ==
  /\ LineOf(r).s_bit \in Range(PileAt(Applied(r).columns, AdderAt(r).col))
  /\ LineOf(r).c_bit \in Range(PileAt(Applied(r).columns, AdderAt(r).col + 1))

\* the loop goes on with the placement after this one
NextPlacement(r, r2) == r2.pc = "adder" /\ r2.j = r.j + 1 /\ r2.k = r.k

\* C26: an explicit input token that is found in no column produces one
\* warning and leaves every column unchanged; the placement is still
\* instantiated wired to that unresolved label and still writes its SUM and
\* CARRY labels, and processing continues with the next placement.
C26_UnresolvedInputWired ==
  AtExplicit(run)
    => \A i \in 1..Len(AdderAt(run).inputs) :
         Unresolved(run, i)
           => /\ WarnedAndLeft(run, i)
              /\ WiredTo(run, i)
              /\ SumAndCarryWritten(run)
              /\ NextPlacement(run, adder_round(run))

\* the write-back of a round from the board before to the board after: the
\* board is grown to hold column col + 1, the columns added are empty but
\* for the labels written, the CARRY label is the last of column col + 1 and
\* no column but col and col + 1 changes
Grown(before, after, col, c_bit) ==
  /\ Len(after) = Max(Len(before), col + 2)
  /\ \A c \in 0..(Len(after) - 1) :
       c \notin {col, col + 1}
         => after[c + 1] = (IF c < Len(before) THEN before[c + 1] ELSE <<>>)
  /\ col + 1 >= 0 => after[col + 2] = Append(PileAt(before, col + 1), c_bit)

\* the planner: the placement on top of the undo stack of the stage being
\* edited has its SUM bubble in its column and its CARRY bubble in the next
TopPlacementWritten(s) ==
  (s.curr # <<>> /\ s.curr[1].undo_actions # <<>>
     /\ s.curr[1].undo_actions[Len(s.curr[1].undo_actions)].act = "adder")
    => /\ Len(s.columns) >= s.curr[1].undo_actions[Len(s.curr[1].undo_actions)].col + 2
       /\ s.curr[1].undo_actions[Len(s.curr[1].undo_actions)].s_label
            \in Range(BubbleLabels(PileAt(
                  s.columns, s.curr[1].undo_actions[Len(s.curr[1].undo_actions)].col)))
       /\ s.curr[1].undo_actions[Len(s.curr[1].undo_actions)].c_label
            \in Range(BubbleLabels(PileAt(
                  s.columns, s.curr[1].undo_actions[Len(s.curr[1].undo_actions)].col + 1)))

\* for every placement the SUM label is appended to columns[column] and the
\* CARRY label to columns[column + 1], the array growing on demand
C27_AlwaysWrittenBack ==
  /\ run = NoRun => TopPlacementWritten(Now)
  /\ (run # NoRun /\ run.pc = "adder" /\ AtPlacement(run))
       => /\ Grown(Taken(run), Applied(run).columns, AdderAt(run).col, LineOf(run).c_bit)
          /\ PileAt(Applied(run).columns, AdderAt(run).col)
               = Append(PileAt(Taken(run), AdderAt(run).col), LineOf(run).s_bit)

\* C27: for every placement on a column that is not negative the SUM label
\* is appended to columns[column] and the CARRY label to columns[column+1];
\* when column + 1 (or column) lies beyond the current column array the array
\* is grown with empty columns up to that index, and this is never an error.
\* On a negative column the SUM label is written to no column, and the CARRY
\* label still goes to column + 1 when that is a column.
C27_WrittenBackAndGrown ==
  /\ run = NoRun => TopPlacementWritten(Now)
  /\ (run # NoRun /\ run.pc = "adder" /\ AtPlacement(run))
       => /\ Grown(Taken(run), Applied(run).columns, AdderAt(run).col, LineOf(run).c_bit)
          /\ IF AdderAt(run).col >= 0
               THEN Applied(run).columns[AdderAt(run).col + 1]
                      = Append(PileAt(Taken(run), AdderAt(run).col), LineOf(run).s_bit)
               ELSE LineOf(run).s_bit \notin Tokens(Applied(run).columns)

\* a placement on the column after the one past the end of the board has
\* been applied: the board has grown by three columns, the first one empty
C27_Witness ==
  /\ run # NoRun
  /\ run.pc = "adder"
  /\ run.j = 2
  /\ StageAt(run).adders[1] = Adder("HA", 4, <<>>)
  /\ Len(run.cols) = 6
  /\ run.cols[4] = <<>>
  /\ run.cols[5] = <<BusLabel("S", StageAt(run).name, 0)>>
  /\ run.cols[6] = <<BusLabel("C", StageAt(run).name, 0)>>

\* the warnings of the round that the SUM label lab was dropped
DroppedWarnings(r, lab) ==
  {w \in 1..Len(AddedWarnings(r)) :
     AddedWarnings(r)[w] = <<"S dropped", AdderAt(r).col, lab>>}

\* the placements of a stage done: one instance for each HA or FA placement
AllInstantiated(r) == Len(r.st.inst_lines) = Instances(StageAt(r).adders)

\* C28: a placement with a negative target column has its SUM label dropped,
\* written to no column, with a warning, and the placements declared after
\* it in the stage are still processed.
C28_NegativeColumnDropsSum ==
  /\ (AtPlacement(run) /\ AdderAt(run).col < 0)
       => /\ LineOf(run).s_bit = BusLabel("S", StageAt(run).name, run.j - 1)
          /\ LineOf(run).s_bit \notin Tokens(Applied(run).columns)
          /\ Cardinality(DroppedWarnings(run, LineOf(run).s_bit)) = 1
          /\ NextPlacement(run, adder_round(run))
  /\ (run.pc = "adder" /\ run.j > Len(StageAt(run).adders)) => AllInstantiated(run)

\* a stage of a placement on a negative column and a placement after it,
\* both applied: two instances, the first SUM label on no column
C28_Witness ==
  /\ run.pc = "adder"
  /\ run.j = 3
  /\ StageAt(run).adders[1].col < 0
  /\ StageAt(run).adders[1].type \in {"HA", "FA"}
  /\ Len(run.st.inst_lines) = 2
  /\ BusLabel("S", StageAt(run).name, 0) \notin Tokens(run.cols)
  /\ BusLabel("S", StageAt(run).name, 1) \in Tokens(run.cols)
  /\ "S dropped" \in WarnKinds(run.st.warn_lines)

\* the width of the output vectors of the plan of r
W(r) == 2 * r.plan[1].N

\* the labels left in column c of the board of r
Survivors(r, c) == PileAt(r.cols, c)

\* the warnings the finalization r2 of r adds
FinalWarnings(r, r2) == SubSeq(r2.warn_lines, Len(r.warn_lines) + 1, Len(r2.warn_lines))

\* the row of the table for column c: what opa and opb hold at c
TableRow(r, r2, c) ==
  /\ Len(Survivors(r, c)) = 0 => (r2.opa[c + 1] = ZERO /\ r2.opb[c + 1] = ZERO)
  /\ Len(Survivors(r, c)) = 1
       => (r2.opa[c + 1] = Survivors(r, c)[1] /\ r2.opb[c + 1] = ZERO)
  /\ Len(Survivors(r, c)) >= 2
       => (r2.opa[c + 1] = Survivors(r, c)[1] /\ r2.opb[c + 1] = Survivors(r, c)[2])
  /\ \A m \in 3..Len(Survivors(r, c)) :
       Survivors(r, c)[m] \notin Range(r2.opa) \cup Range(r2.opb)

\* one truncation warning for column c if more than two labels are left in
\* it, none otherwise
TruncationWarned(r, r2, c) ==
  Cardinality({w \in 1..Len(FinalWarnings(r, r2)) : FinalWarnings(r, r2)[w][2] = c})
    = (IF Len(Survivors(r, c)) > 2 THEN 1 ELSE 0)

\* the finalization r2 of r follows the table on every column below W and
\* adds no other warning
Tabled(r, r2) ==
  /\ Len(r2.opa) = W(r) /\ Len(r2.opb) = W(r)
  /\ \A c \in 0..(W(r) - 1) : TableRow(r, r2, c) /\ TruncationWarned(r, r2, c)
  /\ \A w \in 1..Len(FinalWarnings(r, r2)) :
       /\ FinalWarnings(r, r2)[w][1] = "more than two left"
       /\ FinalWarnings(r, r2)[w][2] \in 0..(W(r) - 1)

\* C29: at finalization, for every column c of 0..W-1 with k labels left:
\* k = 0 gives opa[c] = opb[c] = ZERO; k = 1 gives opa[c] the label and
\* opb[c] = ZERO; k = 2 gives opa[c] the first and opb[c] the second in held
\* order; k > 2 gives the first and the second, the other labels reach no
\* output and exactly one truncation warning is emitted for the column; no
\* warning is emitted for a column with k <= 2.
C29_FinalizationTable ==
  run.pc = "finalize" => Tabled(run, generate_verilog_tail(run))

\* a board at finalization with columns of no, one, two and three labels
C29_Witness ==
  /\ run.pc = "finalize"
  /\ \A k \in 0..3 : \E c \in 0..(W(run) - 1) : Len(Survivors(run, c)) = k

\* the labels left in the columns of index W and beyond
BeyondW(r) ==
  UNION {Range(r.cols[c + 1]) : c \in W(r)..(Len(r.cols) - 1)}

\* the output vectors have W entries and hold no label of a column beyond W-1
BeyondIgnored(r, r2) ==
  /\ Len(r2.opa) = W(r)
  /\ Len(r2.opb) = W(r)
  /\ BeyondW(r) \cap (Range(r2.opa) \cup Range(r2.opb)) = {}

\* C30: columns with index greater than W-1 are ignored at finalization: a
\* label left in a column of index >= W never appears in opa or opb, and opa
\* and opb always have exactly W entries.
C30_ColumnsBeyondWIgnored ==
  /\ run.pc = "finalize" => BeyondIgnored(run, generate_verilog_tail(run))
  /\ Generated(run) => BeyondIgnored(run, run)

\* a finished generation whose board holds a SUM label in column W and a
\* CARRY label in column W + 1
C30_Witness ==
  /\ run.pc = "done"
  /\ run.plan # <<>>
  /\ Len(run.cols) = W(run) + 2
  /\ BeyondW(run) = {BusLabel("S", 1, 0), BusLabel("C", 1, 0), BusLabel("C", 1, 1)}

\* column c of the seeded board of width n: pp{i}[{c - i}] for every row i
\* with both indices in 0..n-1, in increasing i
SeededColumn(n, c) ==
  [k \in 1..Min(Min(c + 1, n), 2 * n - 1 - c) |->
     PPLabel(Max(0, c - n + 1) + k - 1, c - (Max(0, c - n + 1) + k - 1))]

\* cols is the seeded board of width n
Seeded(cols, n) ==
  /\ Len(cols) = 2 * n - 1
  /\ CountTokens(cols) = n * n
  /\ \A c \in 0..(2 * n - 2) : cols[c + 1] = SeededColumn(n, c)

\* C31: for every width N >= 2 the seeded board has exactly 2N-1 columns
\* holding N*N labels in all, column c holds exactly min(c+1, N, 2N-1-c)
\* labels, namely pp{i}[{j}] for every (i, j) with i + j = c in increasing i;
\* the planner seeds the same board as the batch generator.
C31_Seeding ==
  /\ (run = NoRun /\ lastOp = "init") => Seeded(Labels(columns), N)
  /\ (run # NoRun /\ run.pc = "generate")
       => /\ Seeded(generate_verilog_head(run).cols, run.plan[1].N)
          /\ Labels(build_pp_bubbles(run.plan[1].N)) = generate_verilog_head(run).cols

\* a board of width 3 just seeded: five columns, the middle one of three labels
C31_Witness ==
  /\ run # NoRun
  /\ run.pc = "stage"
  /\ run.k = 1
  /\ run.plan[1].N = 3
  /\ Len(run.cols) = 5
  /\ run.cols[3] = <<PPLabel(0, 2), PPLabel(1, 1), PPLabel(2, 0)>>

\* what apply_stage leaves and returns for the first k stages of the plan of
\* r, from the seeded board
StagesDone(r, k) ==
  BatchBoards(build_initial_columns(r.plan[1].N), SubSeq(r.plan[1].stages, 1, k))

\* the request stands between stages with the board, the instance lines and
\* the warnings the engine gives for the stages done
AsEngine(r, done) ==
  /\ r.cols = (IF done = <<>> THEN build_initial_columns(r.plan[1].N)
               ELSE done[Len(done)].columns)
  /\ r.inst_lines = [s \in 1..Len(done) |-> done[s].inst_lines]
  /\ \A s \in 1..Len(done) :
       \A w \in 1..Len(done[s].warn_lines) : done[s].warn_lines[w] \in Range(r.warn_lines)

\* the second generation gave what the first one gave
SameAsFirst(r) ==
  /\ r.cols = r.first.cols
  /\ r.inst_lines = r.first.inst_lines
  /\ r.warn_lines = r.first.warn_lines
  /\ r.opa = r.first.opa
  /\ r.opb = r.first.opb

PlanIs(r, jb, plan_stages) ==
  /\ r.plan # <<>>
  /\ jb.file.kind = "json"
  /\ jb.file.N = <<2>>
  /\ r.plan[1].N = 2
  /\ r.plan[1].stages = plan_stages

\* C33: N = 2, one stage with one HA at column 1 with implicit inputs: the
\* HA consumes pp1[0] then pp0[1] (first input pp1[0], second input pp0[1]);
\* afterwards column 1 holds exactly the new SUM label and column 2 holds
\* exactly pp1[1] and the new CARRY label in that order, so at finalization
\* column 1 gives opa = SUM, opb = ZERO and column 2 gives opa = pp1[1],
\* opb = CARRY.
C33_OneHalfAdder ==
  (Generated(run) /\ PlanIs(run, job, <<Stage(1, <<Adder("HA", 1, <<>>)>>)>>))
    => /\ Len(run.inst_lines[1]) = 1
       /\ run.inst_lines[1][1].type = "HA"
       /\ run.inst_lines[1][1].inputs = <<PPLabel(1, 0), PPLabel(0, 1)>>
       /\ run.cols[2] = <<run.inst_lines[1][1].s_bit>>
       /\ run.cols[3] = <<PPLabel(1, 1), run.inst_lines[1][1].c_bit>>
       /\ run.inst_lines[1][1].s_bit = BusLabel("S", 1, 0)
       /\ run.inst_lines[1][1].c_bit = BusLabel("C", 1, 0)
       /\ run.opa[2] = BusLabel("S", 1, 0) /\ run.opb[2] = ZERO
       /\ run.opa[3] = PPLabel(1, 1) /\ run.opb[3] = BusLabel("C", 1, 0)

\* the generation of that plan is finished
C33_Witness ==
  /\ run.pc = "done"
  /\ PlanIs(run, job, <<Stage(1, <<Adder("HA", 1, <<>>)>>)>>)
  /\ run.opa[2] = BusLabel("S", 1, 0)

\* C34: N = 2, no stage: the seeded columns are col0 = [pp0[0]], col1 =
\* [pp0[1], pp1[0]], col2 = [pp1[1]], and finalization yields column 0: opa =
\* pp0[0], opb = ZERO; column 1: opa = pp0[1], opb = pp1[0]; column 2: opa =
\* pp1[1], opb = ZERO; column 3: opa = ZERO, opb = ZERO, with no warning.
C34_NoStage ==
  /\ (run.pc \in {"stage", "finalize"} /\ PlanIs(run, job, <<>>))
       => run.cols = <<<<PPLabel(0, 0)>>, <<PPLabel(0, 1), PPLabel(1, 0)>>, <<PPLabel(1, 1)>>>>
  /\ (Generated(run) /\ PlanIs(run, job, <<>>))
       => /\ run.cols = <<<<PPLabel(0, 0)>>, <<PPLabel(0, 1), PPLabel(1, 0)>>,
                          <<PPLabel(1, 1)>>>>
          /\ run.opa = <<PPLabel(0, 0), PPLabel(0, 1), PPLabel(1, 1), ZERO>>
          /\ run.opb = <<ZERO, PPLabel(1, 0), ZERO, ZERO>>
          /\ run.warn_lines = <<>>
          /\ run.inst_lines = <<>>

\* the generation of the plan of width 2 without stages is finished
C34_Witness ==
  /\ run.pc = "done"
  /\ PlanIs(run, job, <<>>)
  /\ run.opb = <<ZERO, PPLabel(1, 0), ZERO, ZERO>>

\* the reopening r of committed stage i of s returns, with that stage being
\* edited and no more placements in it than were recorded
ReopenEnds(s, i, r) ==
  /\ ~r.hung
  /\ r.s.curr # <<>>
  /\ r.s.curr[1].name = s.stages[i].name
  /\ Len(r.s.curr[1].adders) <= Len(s.stages[i].adders)

\* C35: reopening a committed stage for editing always terminates: for
\* every committed plan, plans with ZERO-padded placements included, the
\* replay of the earlier stages and of the reopened stage performs at most
\* one placement per recorded placement and the session reaches the Editing
\* state.
C35_ReopenTerminates ==
  ~hung => \A i \in 1..Len(stages) :
             ReopenEnds(Now, i, on_stage_double_clicked(Now, stages[i].name, TRUE))

\* ------------------------------------------- the editing requests alone
\* a session of the planner in which only the stage and placement requests
\* are made: new stage, placement from a selection, undo, redo, commit,
\* reopening and deletion with followers
EditNext ==
  \/ NewStage
  \/ PlaceFromSelection
  \/ Undo
  \/ Redo
  \/ FinishStage
  \/ Reopen
  \/ DeleteStageAndFollowers

EditSpec == Init /\ [][EditNext]_vars

\* the Plan load_plan reads from the object on_export_json writes
ExportedPlan(s) ==
  [N |-> on_export_json(s).N, stages |-> Plan(on_export_json(s).stages)]

\* the batch engine on the exported plan, stage after stage
BatchOfExport(s) ==
  BatchBoards(build_initial_columns(ExportedPlan(s).N), ExportedPlan(s).stages)

Unresolved_warnings(warn_lines) ==
  {w \in 1..Len(warn_lines) : warn_lines[w][1] = "input not found"}

\* the SUM labels of stage name that the planner created: those on the
\* board and those a recorded placement took
SumsPlaced(s, name) ==
  {l \in AllLabels(s.columns)
          \cup UNION {ExplicitInputs(Logs(s)[k]) : k \in 1..Len(Logs(s))} :
     l.bus = "S" /\ l.n = name}

\* the batch columns hold, column by column, the labels of the board
SameBoardLabels(cols, board) ==
  \A c \in 1..Max(Len(cols), Len(board)) :
    (IF c <= Len(cols) THEN Range(cols[c]) ELSE {})
      = (IF c <= Len(board) THEN LabelsIn(board[c]) ELSE {})

ExportRuns(s, plan, b) ==
  /\ \A k \in 1..Len(b) :
       /\ Unresolved_warnings(b[k].warn_lines) = {}
       /\ Len(plan.stages[k].adders) = Cardinality(SumsPlaced(s, plan.stages[k].name))
  /\ b # <<>> => SameBoardLabels(b[Len(b)].columns, s.columns)

\* C36: every plan built by new stage, placement on selected labels of one
\* column, undo, redo, commit, reopening and deletion with followers, once
\* exported, runs through the batch engine without an unresolved-input
\* warning, each of its stages has as many placements as adders the planner
\* placed on the board, and the batch board after the last stage holds the
\* labels of the planner's live board.
C36_ExportRunsInBatch ==
  ~hung => ExportRuns(Now, ExportedPlan(Now), BatchOfExport(Now))

\* ------------------------------------------------- the plan laid out anew
\* on_reset_stage that drops the stage being edited and leaves the board
on_reset_stage_keeps_board(s) ==
  IF s.curr = <<>> /\ s.stages = <<>> THEN s ELSE [s EXCEPT !.curr = <<>>]

\* on_reset_stage: the stage being edited joins the plan, every stage is
\* replayed on a shadow log from the seeded board, and the history is
\* recomputed
on_reset_stage(s) ==
  IF s.curr = <<>> /\ s.stages = <<>> THEN s
  ELSE
    LET s1 == layout_parallelogram([s EXCEPT !.curr = <<>>,
                                             !.columns = build_pp_bubbles(N)])
        s2 == RebuildKept([s1 EXCEPT !.stage_by_name = EmptyMap, !.stages = <<>>],
                          s.stages \o s.curr)
    IN _recompute_history_from_scratch(layout_parallelogram(s2))

ResetStage ==
  /\ Ready
  /\ curr # <<>> \/ stages # <<>>
  /\ Becomes(on_reset_stage(Now), "reset")

ResetNext == Next \/ ResetStage

ResetSpec == Init /\ [][ResetNext]_vars

\* the board holds, column by column, the labels of the board rebuilt
SameLabelSets(board, rebuilt) ==
  \A c \in 1..Max(Len(board), Len(rebuilt)) :
    (IF c <= Len(board) THEN LabelsIn(board[c]) ELSE {})
      = (IF c <= Len(rebuilt) THEN LabelsIn(rebuilt[c]) ELSE {})

CountersAtPlacements(st) ==
  /\ st.s_seq = Len(st.adders)
  /\ st.c_seq = Len(st.adders)

\* the labels the planner gave the placements of log st, in the order they
\* were placed, are the labels of the instances lines the batch engine
\* makes of the saved stage
LabelledAsBatch(st, lines) ==
  /\ Len(AdderActions(st)) = Len(st.adders)
  /\ Len(lines) = Len(st.adders)
  /\ \A k \in 1..Len(st.adders) :
       /\ AdderActions(st)[k].s_label = lines[k].s_bit
       /\ AdderActions(st)[k].c_label = lines[k].c_bit

\* C38: in the Editing state, after any sequence of place, undo, redo and
\* reposition requests and right after a reopening, the stage being edited
\* has s_seq = c_seq = the number of placements recorded in it, so the label
\* the planner gives the k-th placement is the label the batch engine
\* allocates to the k-th placement of the saved stage.
C38_CountersMatchPlacements ==
  (curr # <<>> /\ ~hung) =>
     /\ CountersAtPlacements(curr[1])
     /\ LabelledAsBatch(curr[1], apply_stage(columns, Plan(curr)[1]).inst_lines)

\* the placement of the stage being edited was undone and redone: the stage
\* holds one placement again, numbered 0
C38_Witness ==
  /\ curr # <<>>
  /\ ~hung
  /\ lastOp = "redo_adder"
  /\ Len(curr[1].adders) = 1
  /\ curr[1].s_seq = 1
  /\ AdderActions(curr[1])[1].s_label = BusLabel("S", curr[1].name, 0)

NamesOf(logs) == [i \in 1..Len(logs) |-> logs[i].name]

\* n is the smallest stage number, from 1 on, that is not in used
SmallestUnused(n, used) ==
  /\ n >= 1
  /\ n \notin used
  /\ \A m \in 1..(n - 1) : m \in used

\* C39: stage names are pairwise distinct: no two committed stages share a
\* name and the name of the stage being edited differs from every committed
\* stage's, and a new stage gets the smallest stgN, N >= 1, not in use.
C39_StageNamesDistinct ==
  [][/\ Distinct(NamesOf(stages' \o curr'))
     /\ (lastOp' = "new_stage" /\ steps' = steps + 1)
          => /\ curr' # <<>>
             /\ SmallestUnused(curr'[1].name, Range(NamesOf(stages \o curr)))]_vars

\* a new stage was begun next to a committed one
C39_Witness ==
  /\ lastOp = "new_stage"
  /\ NamesOf(stages) = <<1>>
  /\ NamesOf(curr) = <<2>>

\* the round r of a placement that is neither HA nor FA came to b: one
\* warning more, and the board, the instance lines and the counters as they
\* were
SkippedUntouched(r, b) ==
  /\ b.warn_lines = Append(r.st.warn_lines, b.warn_lines[Len(b.warn_lines)])
  /\ b.warn_lines[Len(b.warn_lines)][1] = "unknown adder type"
  /\ b.inst_lines = r.st.inst_lines
  /\ b.columns = r.cols
  /\ b.s_seq = r.st.s_seq
  /\ b.c_seq = r.st.c_seq

\* C40: a placement whose type is neither HA nor FA is skipped with one
\* warning: it emits no instance line, appends no SUM or CARRY label to any
\* column, leaves the board exactly as it was before the placement (no
\* input label removed) and the stage's sequence counters unchanged, and
\* the later placements are still processed.
C40_UnknownTypeSkipped ==
  (AtRound(run) /\ AdderAt(run).type \notin {"HA", "FA"})
    => /\ SkippedUntouched(run, Applied(run))
       /\ NextPlacement(run, adder_round(run))

====
